------------------------ MODULE InteractiveMessages ------------------------
(***************************************************************************)
(* The button and call-to-action texts of the WhatsApp client              *)
(* (pkg/whatsapp/message.go): SendInteractiveButtons, SendCTAURLButton and *)
(* SendFlowMessage cut a text that is too long with a Go byte slice, and   *)
(* doRequest sends it through encoding/json.                               *)
(*                                                                         *)
(* A character is represented by the length w of its UTF-8 encoding (1 to *)
(* 4); its k-th byte is the number 10 * w + k (11 is an ASCII byte, 31 the *)
(* lead byte of a 3-byte character, 32 and 33 its continuation bytes).    *)
(* ReplacementChar stands for U+FFFD, which encoding/json writes for every *)
(* byte that does not start a complete UTF-8 sequence.  A behaviour is one *)
(* call, which leaves its outcome in `out`; the functions keep no state    *)
(* between calls.  Every sender ends the same way: doRequest, then         *)
(* json.Unmarshal of the answer into MetaAPIResponse, then the first       *)
(* message id; the provider's answer is chosen from Answers.               *)
(***************************************************************************)
EXTENDS Naturals, Sequences, SequencesExt

CONSTANTS
    AsciiLens,   \* lengths of the single-byte run a text starts with
    TailLen,     \* bound on the characters of any width that follow it
    MessageIds,  \* ids the provider may return
    NoId         \* the "" returned with an error

Widths == 1..4
ReplacementChar == 0

\* The texts a caller passes: a run of single-byte characters, then up to
\* TailLen characters of any width.
Texts == {[i \in 1..k |-> 1] \o t : k \in AsciiLens, t \in SeqOf(Widths, TailLen)}

\* Go's string representation: the UTF-8 bytes of every character.
Utf8Bytes(s) == FlattenSeq([i \in DOMAIN s |-> [k \in 1..s[i] |-> 10 * s[i] + k]])

\* encoding/json: a complete UTF-8 sequence is kept, any other byte is
\* written as U+FFFD.
RECURSIVE JSONText(_)
JSONText(b) ==
    IF b = <<>> THEN <<>>
    ELSE LET w == b[1] \div 10 IN
         IF /\ b[1] % 10 = 1 /\ Len(b) >= w
            /\ \A k \in 1..w : b[k] = 10 * w + k
         THEN <<w>> \o JSONText(SubSeq(b, w + 1, Len(b)))
         ELSE <<ReplacementChar>> \o JSONText(Tail(b))

\* if len(title) > limit { title = title[:limit] }: len and the slice
\* count bytes.
TruncateBytes(s, limit) ==
    IF Len(Utf8Bytes(s)) > limit THEN SubSeq(Utf8Bytes(s), 1, limit) ELSE Utf8Bytes(s)

\* Mutant: the cut text kept as a []byte, which encoding/json does not
\* write as text.
SentRawBytes(s, limit) == TruncateBytes(s, limit)

\* What the provider receives for a text cut at limit bytes.
SentText(s, limit) == JSONText(TruncateBytes(s, limit))

\* What the provider's endpoint may answer: doRequest fails (transport
\* error or non-2xx status), a body that is not JSON, or a JSON body whose
\* "messages" list is empty or holds one entry; an entry without an "id"
\* field unmarshals to the id "".
Answers == {[kind |-> "request_error"], [kind |-> "not_json"]}
           \cup {[kind |-> "json", messages |-> l] :
                    l \in {<<>>} \cup {<<m>> : m \in MessageIds \cup {NoId}}}

Results == {"none", "invalid", "request_failed", "parse_failed", "no_id", "sent"}

\* The end of every sender: the doRequest error, the json.Unmarshal error,
\* "no message ID in response", or resp.Messages[0].ID.
Response(a) ==
    CASE a.kind = "request_error" -> [result |-> "request_failed", id |-> NoId]
      [] a.kind = "not_json"      -> [result |-> "parse_failed", id |-> NoId]
      [] a.messages = <<>>        -> [result |-> "no_id", id |-> NoId]
      [] OTHER                    -> [result |-> "sent", id |-> a.messages[1]]

VARIABLES
    out   \* the outcome of the call

vars == <<out>>

Outcome == [format: {"idle", "error", "button", "list", "cta_url", "flow", "text", "template",
                    "components"},
            text: Seq(Widths), limit: Nat, sent: Seq(Widths \cup {ReplacementChar}),
            result: Results, id: MessageIds \cup {NoId}]

\* A validation error, answered before any request is made.
Error == [format |-> "error", text |-> <<>>, limit |-> 0, sent |-> <<>>,
          result |-> "invalid", id |-> NoId]

\* The payload of format f with text t cut at limit bytes is posted and
\* the provider answers a.
Posted(f, t, limit, sent, a) ==
    [format |-> f, text |-> t, limit |-> limit, sent |-> sent,
     result |-> Response(a).result, id |-> Response(a).id]

TypeOK == out \in Outcome

Idle == [Error EXCEPT !.format = "idle", !.result = "none"]

Init == out = Idle

\* SendInteractiveButtons: 20 bytes for up to 3 reply buttons, 24 for the
\* rows of a list of 4 to 10.
ButtonLimit(n) == IF n <= 3 THEN 20 ELSE 24

\* The body text is sent whole.
SendTextMessage(t, a) ==
    out' = Posted("text", t, 0, JSONText(Utf8Bytes(t)), a)

\* n buttons, all titled t (every title goes through the same loop body).
SendInteractiveButtons(n, t, a) ==
    out' = IF n = 0 \/ n > 10 THEN Error
           ELSE Posted(IF n <= 3 THEN "button" ELSE "list", t,
                       ButtonLimit(n), SentText(t, ButtonLimit(n)), a)

SendCTAURLButton(t, hasURL, a) ==
    out' = IF t = <<>> \/ ~hasURL THEN Error
           ELSE Posted("cta_url", t, 20, SentText(t, 20), a)

\* The template's name, language and parameters are passed through without
\* any check; only the answer decides the outcome.
SendTemplateMessage(a) ==
    out' = Posted("template", <<>>, 0, <<>>, a)

\* An empty CTA text defaults to "Open".
SendFlowMessage(t, hasFlowID, hasBody, a) ==
    LET cta == IF t = <<>> THEN <<1, 1, 1, 1>> ELSE t IN
    out' = IF ~hasFlowID \/ ~hasBody THEN Error
           ELSE Posted("flow", cta, 20, SentText(cta, 20), a)

\* Like SendTemplateMessage, with the components passed as given.
SendTemplateMessageWithComponents(a) ==
    out' = Posted("components", <<>>, 0, <<>>, a)

Next ==
    /\ out = Idle
    /\ \E a \in Answers :
        \/ SendTemplateMessage(a)
        \/ SendTemplateMessageWithComponents(a)
        \/ \E t \in Texts \cup {<<>>} :
            \/ SendTextMessage(t, a)
            \/ \E n \in 0..11 : SendInteractiveButtons(n, t, a)
            \/ \E u \in BOOLEAN : SendCTAURLButton(t, u, a)
            \/ \E f, b \in BOOLEAN : SendFlowMessage(t, f, b, a)

Spec == Init /\ [][Next]_vars

=============================================================================
