----------------------------- MODULE MCServices -----------------------------
(* Of the subscriptions: every two of the requests below against each other. *)
EXTENDS Services

MCRow(owner, endpoint, active) ==
  [owner |-> owner, endpoint |-> endpoint, active |-> active, wants |-> {"fleet"}]
\* Nothing yet; a user with a device in use and one that is not, and a place.
MCFirstRows ==
  {<< >>, <<MCRow("ann", "e1", TRUE), MCRow("ann", "e2", FALSE), MCRow("gate", "e3", TRUE)>>}

MCWith(op, owner, endpoint, wants) ==
  [op |-> op, owner |-> owner, endpoint |-> endpoint, wants |-> wants]
MCOf(op, owner, endpoint) == [op |-> op, owner |-> owner, endpoint |-> endpoint]
MCRequests ==
  {MCWith("subscribe", "ann", "e2", {"fleet"}), MCWith("subscribe", "ann", "e4", {"fleet"}),
   MCWith("subscribe", "bob", "e1", {}), MCWith("subscribe", "bob", "e3", {"fleet"}),
   MCWith("subscribe", "bob", "e4", {"fleet"}),
   MCOf("dispatcher-subscribe", "gate", "e1"), MCOf("dispatcher-subscribe", "gate", "e3"),
   MCOf("dispatcher-subscribe", "gate", "e4"),
   MCOf("unsubscribe", "ann", "e1"), MCOf("dispatcher-unsubscribe", "gate", "e3"),
   MCWith("updatePreferences", "ann", "e1", {}),
   MCWith("updatePreferences", "ann", "e2", {"fleet"}),
   [op |-> "broadcast", key |-> "fleet"], [op |-> "broadcast", key |-> "every"],
   [op |-> "sendDispatcherPush", owner |-> "gate"]}
MCMenus == {{a, b} : a \in MCRequests, b \in MCRequests}
=============================================================================
