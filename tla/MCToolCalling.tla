--------------------------- MODULE MCToolCalling ----------------------------
(***************************************************************************)
(* An instance of ToolCalling for TLC.  The requests share the key of      *)
(* one order and differ in spelling, reason or tenant; one is over the     *)
(* limit and one has no amount.                                            *)
(***************************************************************************)
EXTENDS ToolCalling, TLC

Ask(tenant, amount, spelled, reason) ==
    [tenant |-> tenant, order |-> "o1", amount |-> amount, spelled |-> spelled, reason |-> reason]

MCRequests ==
    {Ask("acme", 2, "2", "damaged"), Ask("acme", 2, "2.00", "damaged"), Ask("acme", 2, "2", "late"),
     Ask("other", 2, "2", "damaged"), Ask("acme", 5, "5", "damaged"), Ask("acme", 0, "0", "damaged")}

MCActors ==
    {[id |-> "agent", role |-> "support_agent", tenant |-> "acme"],
     [id |-> "manager", role |-> "support_manager", tenant |-> "other"],
     [id |-> "intern", role |-> "viewer", tenant |-> "acme"]}

Reply(by, role, amount, fresh) == [by |-> by, role |-> role, amount |-> amount, fresh |-> fresh]

MCApprovals ==
    {Reply("manager", "finance_manager", 2, TRUE), Reply("agent", "finance_manager", 2, TRUE),
     Reply("manager", "finance_manager", 1, TRUE), Reply("manager", "finance_manager", 2, FALSE),
     Reply("manager", "support_manager", 2, TRUE), Reply("manager", "finance_manager", 0, TRUE)}

MCSymmetry == Permutations(Sessions) \cup Permutations(Threads) \cup Permutations(RequestIds)
=============================================================================
