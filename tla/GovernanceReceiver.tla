------------------------- MODULE GovernanceReceiver -------------------------
(***************************************************************************)
(* solana/programs/aegis_governance_receiver: governance messages of the   *)
(* other chain, their delay on this one, the caps on what a message may    *)
(* take out of the treasury and the record of recent outflows (window.rs). *)
(* The network between the chains delivers the signed messages of any      *)
(* emitter late, twice, out of order or never; an instruction that fails   *)
(* leaves the accounts alone.  One treasury stands for up to eight, which  *)
(* share nothing but the clock and the length of the window.               *)
(***************************************************************************)
EXTENDS Integers, FiniteSets, Sequences, FiniteSetsExt

CONSTANTS
  Emitters,      \* addresses on the emitter chain: dispatchers of the DAO
  Sequences,     \* sequence numbers of an emitter's messages
  Programs,      \* programs a message may name, besides the receiver
  Self,          \* the receiver itself
  Carried,       \* instructions that messages carry
  Setup,         \* instructions the bootstrap admin may give
  Delays,        \* values of the delay, none below MIN_DELAY
  Windows,       \* values of the window
  Caps,          \* values of the caps on outflows, per message and rolling
  Amounts,       \* what a payment takes out of the treasury
  Entries,       \* WINDOW_ENTRIES
  Start,         \* configurations and caps that initialize and setup leave
  MaxSetup,      \* bound on what the admin does, and on pauses
  MaxTime        \* bound on the clock

(* A payment names a program; the others are the receiver's instructions   *)
(* that only governance gives.                                             *)
Instructions ==
  [target : Programs, name : {"pay"}, value : Amounts, rolling : {0}]
  \cup [target : {Self}, name : {"set_caps", "register"}, value : Caps,
        rolling : Caps]
  \cup [target : {Self}, rolling : {0},
        name : {"set_delay"}, value : Delays]
  \cup [target : {Self}, rolling : {0},
        name : {"set_window"}, value : Windows]
  \cup [target : {Self}, rolling : {0},
        name : {"set_emitter"}, value : Emitters]
  \cup [target : {Self}, rolling : {0},
        name : {"cancel"}, value : Sequences]
  \cup [target : {Self}, rolling : {0},
        name : {"allow", "disallow"}, value : Programs \cup {Self}]
  \cup [target : {Self}, rolling : {0}, value : {0},
        name : {"pause", "unpause", "deregister", "finish_bootstrap"}]

ASSUME ReceiverAssumption ==
  /\ Self \notin Programs
  /\ Carried \subseteq Instructions
  /\ Setup \subseteq Instructions
  /\ \A i \in Carried : i.name # "finish_bootstrap"
  /\ \A i \in Setup : i.name # "pay"
  /\ Delays \subseteq Nat \ {0} /\ Delays # {}
  /\ Windows \subseteq Nat \ {0} /\ Windows # {}
  /\ Caps \subseteq Nat /\ Amounts \subseteq Nat \ {0}
  /\ Entries \in Nat \ {0}
  /\ Start \subseteq [emitter : Emitters, delay : Delays, window : Windows,
                     perMessageCap : Caps, rollingCap : Caps]
  /\ \A s \in Start : s.perMessageCap <= s.rollingCap
  /\ MaxSetup \in Nat /\ MaxTime \in Nat

VARIABLES
  now,          \* the clock's unix timestamp
  config,       \* Config
  allowed,      \* the programs whose Allowed account says so
  messages,     \* InboundMessage by sequence number: of one emitter chain
  treasury,     \* Treasury
  window,       \* Window: times and amounts of recent outflows
  outflows,     \* history: every outflow since the treasury was registered
  shortest,     \* history: the shortest window that was in force
  performed,    \* history: how often a message's instruction ran
  setups        \* how often a bounded step was taken

funds == <<treasury, window, outflows, shortest>>
vars == <<now, config, allowed, messages, funds, performed, setups>>

NoInstruction == [target |-> Self, name |-> "none", value |-> 0, rolling |-> 0]

Absent == [state |-> "absent", instruction |-> NoInstruction,
           receivedAt |-> 0, executableAt |-> 0]

Empty == [i \in 1..Entries |-> [time |-> 0, amount |-> 0]]

-----------------------------------------------------------------------------
(* window.rs: record. *)

(* A bucket that is empty again when a window ends. *)
MutantCounts(entry) ==
  /\ entry.amount > 0
  /\ entry.time \div config.window = now \div config.window

Counts(entry) == entry.amount > 0 /\ entry.time > now - config.window

Record(outflow) ==
  LET counted == {i \in 1..Entries : Counts(window[i])}
      free == (1..Entries) \ counted
  IN /\ MapThenSumSet(LAMBDA i : window[i].amount, counted) + outflow
          <= treasury.rollingCap
     /\ free # {}
     /\ window' = [window EXCEPT
          ![Min(free)] = [time |-> now, amount |-> outflow]]

-----------------------------------------------------------------------------
(* Messages. *)

IsUnpause(i) == i.target = Self /\ i.name = "unpause"

PassesPause(i) == ~config.paused \/ IsUnpause(i)

(* A message that arrives again is stored again. *)
MutantFresh(seq) == messages[seq].state # "pending"

(* The account's address is taken by the first message stored there. *)
Fresh(seq) == messages[seq].state = "absent"

(* The signatures are checked by Wormhole's program: only what an emitter  *)
(* published gets here.                                                    *)
ReceiveMessage(e, seq, i) ==
  /\ e = config.emitter
  /\ PassesPause(i)
  /\ Fresh(seq)
  /\ messages' = [messages EXCEPT ![seq] =
       [state |-> "pending", instruction |-> i, receivedAt |-> now,
        executableAt |-> now + config.delay]]
  /\ UNCHANGED <<now, config, allowed, funds, performed, setups>>

(* Cancelled messages keep their place. *)
Cancelled(box, seq) == [box EXCEPT ![seq].state = "cancelled"]

Set(field, value) ==
  /\ config' = [config EXCEPT ![field] = value]
  /\ shortest' = Min({shortest, config'.window})
  /\ UNCHANGED <<allowed, treasury, window, outflows>>

(* Any pair of caps is taken. *)
MutantCapsFit(perMessageCap, rollingCap) == TRUE

CapsFit(perMessageCap, rollingCap) == perMessageCap <= rollingCap

(* What the receiver's own instructions do once `governed` holds; `box` is *)
(* the messages as the instruction finds them.                             *)
Govern(i, box) ==
  \/ /\ \/ i.name = "pause" /\ ~config.paused /\ Set("paused", TRUE)
        \/ i.name = "unpause" /\ config.paused /\ Set("paused", FALSE)
        \/ i.name = "set_delay" /\ Set("delay", i.value)
        \/ i.name = "set_window" /\ Set("window", i.value)
        \/ i.name = "set_emitter" /\ Set("emitter", i.value)
        \/ /\ i.name = "allow"
           /\ allowed' = allowed \cup {i.value}
           /\ UNCHANGED <<config, funds>>
        \/ /\ i.name = "disallow"
           /\ allowed' = allowed \ {i.value}
           /\ UNCHANGED <<config, funds>>
     /\ messages' = box
  \/ /\ i.name = "cancel"
     /\ box[i.value].state = "pending"
     /\ messages' = Cancelled(box, i.value)
     /\ UNCHANGED <<config, allowed, funds>>
  \/ /\ \/ /\ i.name = "set_caps" /\ treasury.registered
           /\ UNCHANGED <<window, outflows>>
        \/ /\ i.name = "register" /\ ~treasury.registered
           /\ window' = Empty
           /\ outflows' = <<>>
     /\ CapsFit(i.value, i.rolling)
     /\ treasury' = [registered |-> TRUE, perMessageCap |-> i.value,
                     rollingCap |-> i.rolling]
     /\ messages' = box
     /\ UNCHANGED <<config, allowed, shortest>>
  \/ /\ i.name = "deregister" /\ treasury.registered
     /\ treasury' = [treasury EXCEPT !.registered = FALSE]
     /\ window' = Empty
     /\ outflows' = <<>>
     /\ messages' = box
     /\ UNCHANGED <<config, allowed, shortest>>

(* A payment by some program with the authority's signature; what leaves a *)
(* registered treasury is measured.                                        *)
Pay(amount, box) ==
  /\ messages' = box
  /\ \/ ~treasury.registered /\ UNCHANGED <<window, outflows>>
     \/ /\ treasury.registered
        /\ amount <= treasury.perMessageCap
        /\ Record(amount)
        /\ outflows' = Append(outflows, [time |-> now, amount |-> amount])
  /\ UNCHANGED <<config, allowed, treasury, shortest>>

(* The message is written as executed before its instruction is called.    *)
Execute(seq) ==
  LET message == messages[seq]
      i == message.instruction
      box == [messages EXCEPT ![seq].state = "executed"]
  IN /\ message.state = "pending"
     /\ i.target \in allowed
     /\ now >= message.executableAt
     /\ PassesPause(i)
     /\ \/ i.target = Self /\ Govern(i, box)
        \/ i.target # Self /\ Pay(i.value, box)
     /\ performed' = [performed EXCEPT ![seq] = @ + 1]
     /\ UNCHANGED <<now, setups>>

-----------------------------------------------------------------------------
(* The guardian and, until bootstrap ends, the upgrade authority. *)

GuardianCancel(seq) ==
  /\ messages[seq].state = "pending"
  /\ messages' = Cancelled(messages, seq)
  /\ UNCHANGED <<now, config, allowed, funds, performed, setups>>

Bounded ==
  /\ setups < MaxSetup
  /\ setups' = setups + 1
  /\ UNCHANGED <<now, performed>>

Pause ==
  /\ Bounded
  /\ ~config.paused
  /\ Set("paused", TRUE)
  /\ UNCHANGED messages

FinishBootstrap ==
  /\ Set("bootstrapping", FALSE)
  /\ UNCHANGED messages

BootstrapAdmin(i) ==
  /\ Bounded
  /\ config.bootstrapping
  /\ \/ i.name = "finish_bootstrap" /\ FinishBootstrap
     \/ Govern(i, messages)

Tick ==
  /\ now < MaxTime
  /\ now' = now + 1
  /\ UNCHANGED <<config, allowed, messages, funds, performed, setups>>

-----------------------------------------------------------------------------
(* initialize, and the setup that registers the treasury. *)
Init ==
  /\ now = 0
  /\ \E s \in Start :
       /\ config = [paused |-> FALSE, bootstrapping |-> TRUE,
                    emitter |-> s.emitter, delay |-> s.delay,
                    window |-> s.window]
       /\ shortest = s.window
       /\ treasury = [registered |-> TRUE, perMessageCap |-> s.perMessageCap,
                      rollingCap |-> s.rollingCap]
  /\ allowed = Programs \cup {Self}
  /\ messages = [seq \in Sequences |-> Absent]
  /\ window = Empty
  /\ outflows = <<>>
  /\ performed = [seq \in Sequences |-> 0]
  /\ setups = 0

Next ==
  \/ \E e \in Emitters, seq \in Sequences, i \in Carried :
       ReceiveMessage(e, seq, i)
  \/ \E seq \in Sequences : Execute(seq) \/ GuardianCancel(seq)
  \/ Pause
  \/ \E i \in Setup : BootstrapAdmin(i)
  \/ Tick

Spec == Init /\ [][Next]_vars

-----------------------------------------------------------------------------
(* Properties. *)

TypeOK ==
  /\ now \in 0..MaxTime
  /\ config \in [paused : BOOLEAN, bootstrapping : BOOLEAN,
                 emitter : Emitters, delay : Delays, window : Windows]
  /\ allowed \subseteq Programs \cup {Self}
  /\ \A seq \in Sequences :
       LET m == messages[seq]
       IN /\ m.state \in {"absent", "pending", "executed", "cancelled"}
          /\ m.state = "absent" <=> m = Absent
          /\ m.state # "absent" => m.instruction \in Carried
  /\ \A seq \in Sequences : performed[seq] \in Nat
  /\ shortest \in Windows
  /\ treasury \in [registered : BOOLEAN, perMessageCap : Caps,
                   rollingCap : Caps]
  /\ treasury.perMessageCap <= treasury.rollingCap
  /\ window \in [1..Entries -> [time : 0..MaxTime, amount : {0} \cup Amounts]]
  /\ ~treasury.registered => window = Empty
  /\ setups \in 0..MaxSetup

(* A payment out of a registered treasury keeps the outflows of any window *)
(* as short as the shortest in force so far, wherever it begins, within    *)
(* the rolling cap: slots that are used again, a full record, a window or  *)
(* caps that are changed between payments lose none that still counts.     *)
RollingCapHeld ==
  [][Len(outflows') > Len(outflows) =>
       MapThenSumSet(LAMBDA i : outflows'[i].amount,
                     {i \in 1..Len(outflows') :
                        outflows'[i].time > now - shortest})
         <= treasury.rollingCap]_vars

(* However often and in whatever order messages arrive, an instruction     *)
(* runs at most once, a full shortest delay after its message was stored   *)
(* (under the bridge's promise, after it was voted), never after it was    *)
(* cancelled, and while the receiver is paused nothing runs but an         *)
(* unpause.                                                                *)
RunsOnceInTime ==
  [][\A seq \in Sequences :
       /\ messages[seq].state = "cancelled" =>
            messages'[seq].state = "cancelled"
       /\ performed'[seq] # performed[seq] =>
            /\ performed[seq] = 0
            /\ messages[seq].state # "cancelled"
            /\ now >= messages[seq].receivedAt + Min(Delays)
            /\ config.paused => IsUnpause(messages[seq].instruction)]_vars
=============================================================================
