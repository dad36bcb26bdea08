----------------------------- MODULE MCSocInbox -----------------------------
EXTENDS SocInboxProps

TwoEvents == {<<[event |-> "e1", payload |-> "p1"], [event |-> "e2", payload |-> "p1"]>>}

=============================================================================
