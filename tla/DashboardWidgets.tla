-------------------------- MODULE DashboardWidgets --------------------------
(***************************************************************************)
(* The dashboard widget handlers of one organization (unnamed/part_005):   *)
(* CreateDashboardWidget, UpdateDashboardWidget, DeleteDashboardWidget and *)
(* ReorderDashboardWidgets, as concurrent HTTP requests of the users'      *)
(* browser tabs.  Each SQL statement a handler issues is one step; the     *)
(* widget's name, query and styling are left out, since no handler reads   *)
(* them to decide what to write.  The list and the dashboard show a        *)
(* user's widgets ORDER BY display_order, created_at.                     *)
(***************************************************************************)
EXTENDS Naturals, Sequences, FiniteSets, FiniteSetsExt, Functions

CONSTANTS
    Users,        \* the organization's users with analytics write permission
    Tabs,         \* concurrent requests of one user
    Sessions,     \* the <<user, tab>> pairs that send requests
    Widgets,      \* widget ids uuid.New may return
    MaxList,      \* bound on the ids of one reorder request
    MaxDbErrors,  \* bound on failing statements
    NoUser        \* user_id IS NULL

ASSUME Sessions \subseteq Users \X Tabs

WidgetRow == [state: {"never", "live", "deleted"}, owner: Users \cup {NoUser},
              order: Nat, seq: Nat]

NoWidget == [state |-> "never", owner |-> NoUser, order |-> 0, seq |-> 0]

\* The widget_ids a reorder request may carry: distinct ids, the user's own
\* or not.
Lists == UNION {{l \in [1..n -> Widgets] : IsInjective(l)} : n \in 0..MaxList}

Idle == [pc |-> "idle", max |-> 0, list |-> <<>>, i |-> 1,
         w |-> CHOOSE w \in Widgets : TRUE, snap |-> NoWidget]

VARIABLES
    widget,    \* the dashboard_widgets rows, by id
    created,   \* created_at: the rows inserted so far
    req,       \* per user and tab: the request in progress
    last,      \* history: per user, the widget_ids of the last reorder answered
    dbErrors   \* failing statements so far

vars == <<widget, created, req, last, dbErrors>>

TypeOK ==
    /\ widget \in [Widgets -> [state: {"never", "live", "deleted"},
                               owner: Users \cup {NoUser}, order: Nat, seq: Nat]]
    /\ created \in 0..Cardinality(Widgets)
    /\ req \in [Sessions ->
                 [pc: {"idle", "create", "reorder", "update"}, max: Nat,
                  list: Lists, i: 1..MaxList + 1, w: Widgets, snap: WidgetRow]]
    /\ last \in [Users -> Lists]
    /\ dbErrors \in 0..MaxDbErrors

Init ==
    /\ widget = [w \in Widgets |-> NoWidget]
    /\ created = 0
    /\ req = [x \in Sessions |-> Idle]
    /\ last = [u \in Users |-> <<>>]
    /\ dbErrors = 0

OwnedLive(w, u) == widget[w].state = "live" /\ widget[w].owner = u

\* A statement fails; the handler goes on or answers an error, as it does.
DbError == dbErrors < MaxDbErrors /\ dbErrors' = dbErrors + 1

Finish(x) == req' = [req EXCEPT ![x] = Idle]

(***************************************************************************)
(* CreateDashboardWidget                                                   *)
(***************************************************************************)

FreshIds == {v \in Widgets : widget[v].state = "never"}

\* SELECT COALESCE(MAX(display_order), 0) over the user's widgets.  The
\* Scan error is not checked: a failing query leaves maxOrder at 0.  A
\* create starts only while the model has an unused id for it.
CreateReadMax(u, t) ==
    LET x == <<u, t>>
        max == Max({0} \cup {widget[w].order : w \in {v \in Widgets : OwnedLive(v, u)}})
    IN
    /\ req[x].pc = "idle"
    /\ FreshIds # {}
    /\ \/ req' = [req EXCEPT ![x].pc = "create", ![x].max = max] /\ UNCHANGED dbErrors
       \/ DbError /\ req' = [req EXCEPT ![x].pc = "create", ![x].max = 0]
    /\ UNCHANGED <<widget, created, last>>

\* DB.Create with display_order = maxOrder + 1, or its error.
CreateInsert(u, t) ==
    LET x == <<u, t>> IN
    /\ req[x].pc = "create"
    /\ Finish(x)
    /\ \/ \E w \in FreshIds :
            /\ widget' = [widget EXCEPT ![w] = [state |-> "live", owner |-> u,
                                               order |-> req[x].max + 1, seq |-> created + 1]]
            /\ created' = created + 1
            /\ UNCHANGED dbErrors
       \/ DbError /\ UNCHANGED <<widget, created>>
    /\ UNCHANGED last

(***************************************************************************)
(* ReorderDashboardWidgets: one UPDATE per id, each error ignored.         *)
(***************************************************************************)

\* The ids are of widgets created before: the user's, another user's or a
\* deleted one (a uuid not yet issued cannot be sent).
ReorderStart(u, t) ==
    LET x == <<u, t>> IN
    /\ req[x].pc = "idle"
    /\ \E l \in {m \in Lists : \A k \in DOMAIN m : m[k] \notin FreshIds} : req' = [req EXCEPT ![x].pc = "reorder", ![x].list = l, ![x].i = 1]
    /\ UNCHANGED <<widget, created, last, dbErrors>>

\* Mutant: the loop index taken as 1-based.
ReorderIndexOffByOne(k) == k - 2

\* The display_order written for the k-th id: Go's range index k-1.
ReorderIndex(k) == k - 1

\* Mutant: the user_id condition left out of the WHERE clause.
ReorderMatchesAnyOwner(w, u) == widget[w].state = "live"

\* WHERE id = ? AND organization_id = ? AND user_id = ?: other users' and
\* deleted widgets match no row.
ReorderMatches(w, u) == OwnedLive(w, u)

\* UPDATE dashboard_widgets SET display_order = i for the k-th id.
ReorderStep(u, t) ==
    LET x == <<u, t>>  k == req[x].i  w == req[x].list[k] IN
    /\ req[x].pc = "reorder"
    /\ k <= Len(req[x].list)
    /\ req' = [req EXCEPT ![x].i = k + 1]
    /\ \/ /\ widget' = IF ReorderMatches(w, u)
                       THEN [widget EXCEPT ![w].order = ReorderIndex(k)] ELSE widget
          /\ UNCHANGED dbErrors
       \/ DbError /\ UNCHANGED widget
    /\ UNCHANGED <<created, last>>

\* "Widgets reordered successfully".
ReorderDone(u, t) ==
    LET x == <<u, t>> IN
    /\ req[x].pc = "reorder"
    /\ req[x].i > Len(req[x].list)
    /\ last' = [last EXCEPT ![u] = req[x].list]
    /\ Finish(x)
    /\ UNCHANGED <<widget, created, dbErrors>>

(***************************************************************************)
(* UpdateDashboardWidget and DeleteDashboardWidget                         *)
(***************************************************************************)

\* First(&widget) by id and organization, and the owner check.
FindWidget(w, u) == OwnedLive(w, u)

\* The lookup and the owner check; the row is kept in memory.
UpdateLoad(u, t) ==
    LET x == <<u, t>> IN
    /\ req[x].pc = "idle"
    /\ \E w \in Widgets :
         /\ FindWidget(w, u)
         /\ req' = [req EXCEPT ![x].pc = "update", ![x].w = w, ![x].snap = widget[w]]
    /\ UNCHANGED <<widget, created, last, dbErrors>>

\* DB.Save writes every column of the loaded row, display_order included.
\* When the UPDATE matches no row (the widget was deleted meanwhile), GORM's
\* Save looks the row up and inserts it again if it is absent; with a
\* soft-delete column the insert conflicts and Save fails.  Both outcomes
\* are possible, since the model struct is not in the source.
UpdateSave(u, t) ==
    LET x == <<u, t>>  w == req[x].w IN
    /\ req[x].pc = "update"
    /\ Finish(x)
    /\ \/ /\ widget[w].state = "live"
          /\ widget' = [widget EXCEPT ![w] = [req[x].snap EXCEPT !.state = "live"]]
          /\ UNCHANGED dbErrors
       \/ /\ widget[w].state = "deleted"
          /\ \/ widget' = [widget EXCEPT ![w] = [req[x].snap EXCEPT !.state = "live"]]
             \/ UNCHANGED widget
          /\ UNCHANGED dbErrors
       \/ DbError /\ UNCHANGED widget
    /\ UNCHANGED <<created, last>>

\* The lookup, the owner check and DB.Delete, answered with success.
DeleteDashboardWidget(u, t) ==
    LET x == <<u, t>> IN
    /\ req[x].pc = "idle"
    /\ \E w \in Widgets :
         /\ FindWidget(w, u)
         /\ \/ widget' = [widget EXCEPT ![w].state = "deleted"] /\ UNCHANGED dbErrors
            \/ DbError /\ UNCHANGED widget
    /\ UNCHANGED <<created, req, last>>

Next ==
    \E u \in Users, t \in Tabs :
        /\ <<u, t>> \in Sessions
        /\ \/ CreateReadMax(u, t) \/ CreateInsert(u, t)
           \/ ReorderStart(u, t) \/ ReorderStep(u, t) \/ ReorderDone(u, t)
           \/ UpdateLoad(u, t) \/ UpdateSave(u, t)
           \/ DeleteDashboardWidget(u, t)

Spec == Init /\ [][Next]_vars

=============================================================================
