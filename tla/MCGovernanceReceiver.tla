------------------------ MODULE MCGovernanceReceiver ------------------------
(* Instances of GovernanceReceiver for TLC: what each is for is in its .cfg. *)
EXTENDS GovernanceReceiver, TLC

CONSTANTS bank, d1, d2

Own(name, value) ==
  [target |-> Self, name |-> name, value |-> value, rolling |-> 0]

(* Payments, and what governance may send to change how they are counted.  *)
MCCarried ==
  {[target |-> bank, name |-> "pay", value |-> v, rolling |-> 0] : v \in Amounts}
  \cup {Own("unpause", 0), Own("set_window", 1)}

MCSetup ==
  {Own("set_window", 2), Own("set_delay", 2), Own("set_emitter", d2),
   Own("disallow", bank), Own("allow", bank),
   Own("pause", 0), Own("unpause", 0), Own("deregister", 0),
   Own("finish_bootstrap", 0),
   [Own("register", 1) EXCEPT !.rolling = 3],
   [Own("set_caps", 2) EXCEPT !.rolling = 2],
   [Own("set_caps", 3) EXCEPT !.rolling = 1]}
  \cup {Own("cancel", seq) : seq \in Sequences}

MCStart ==
  {[emitter |-> d1, delay |-> 1, window |-> 2, perMessageCap |-> 2,
    rollingCap |-> 3]}

MCSymmetry == Permutations(Sequences)
=============================================================================
