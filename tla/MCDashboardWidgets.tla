------------------------- MODULE MCDashboardWidgets -------------------------
EXTENDS DashboardWidgets, TLC

CONSTANTS u1, u2, t1, t2, w1, w2, w3

\* Every user sends requests from every tab.
AllSessions == Users \X Tabs

\* u1 works in two tabs, u2 in one.
TwoAndOneSessions == {<<u1, t1>>, <<u1, t2>>, <<u2, t1>>}

\* Widget ids are interchangeable uuids, users with the same tabs
\* interchangeable accounts.
Symmetry == Permutations(Widgets) \cup Permutations(Users)
WidgetSymmetry == Permutations(Widgets)

\* A widget precedes another on the dashboard: ORDER BY display_order,
\* created_at.
ListedBefore(a, b) ==
    \/ widget[a].order < widget[b].order
    \/ widget[a].order = widget[b].order /\ widget[a].seq < widget[b].seq

ReorderInFlight(u) == \E t \in Tabs : <<u, t>> \in Sessions /\ req[<<u, t>>].pc = "reorder"

\* After ReorderDashboardWidgets has answered "Widgets reordered
\* successfully", and until the user reorders again, the user's own widgets
\* that request listed are shown in the order it listed them, whatever
\* creates, updates and deletes happen meanwhile.
ListedInRequestedOrder ==
    \A u \in Users :
        ~ReorderInFlight(u) =>
            LET l == last[u] IN
            \A i, j \in 1..Len(l) :
                (i < j /\ OwnedLive(l[i], u) /\ OwnedLive(l[j], u))
                    => ListedBefore(l[i], l[j])

\* The steps of user u's requests that write a widget row.
WritesOf(u) ==
    \E t \in Tabs : <<u, t>> \in Sessions /\ (CreateInsert(u, t) \/ ReorderStep(u, t) \/ UpdateSave(u, t)
                    \/ DeleteDashboardWidget(u, t))

\* A user's widgets are written only by that user's requests.  The widget
\* ids a user's dashboard shows include the widgets other users share, and
\* ReorderDashboardWidgets writes whatever ids its request carries: only
\* the user_id condition of its UPDATE, and the owner checks of
\* UpdateDashboardWidget and DeleteDashboardWidget, keep one user from
\* moving, editing or deleting another user's widget.
OwnerOnlyWrites ==
    [][\A w \in Widgets :
         widget[w].state # "never" /\ widget'[w] # widget[w] => WritesOf(widget[w].owner)]_vars

=============================================================================
