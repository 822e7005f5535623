----------------------------- MODULE MCMessaging -----------------------------
(***************************************************************************)
(* Instances of Messaging for TLC.                                         *)
(***************************************************************************)
EXTENDS Messaging

CONSTANTS leased, fallback

Message(valid, target, correlated, kind) ==
  [form |-> "message", valid |-> valid, target |-> target, correlated |-> correlated,
   kind |-> kind]

NoDatagrams == {}
Inbox ==
  {Message(TRUE, TRUE, TRUE, "request"), Message(FALSE, TRUE, TRUE, "other"),
   Message(FALSE, FALSE, TRUE, "request"), [Message(FALSE, TRUE, FALSE, "none") EXCEPT !.form = "corrupt"]}

NoPublishers == {}
NoPeriods == [i \in NoPublishers |-> 1]
One == {1}
Slow == [i \in One |-> 3]
=============================================================================
