-------------------------------- MODULE Plic --------------------------------
(***************************************************************************)
(* The platform-level interrupt controller (src/plic.c).                   *)
(*                                                                         *)
(* Device threads and the CPU thread raise sources with plic_signal; the   *)
(* CPU thread polls with plic_interrupt between two instructions and runs  *)
(* the guest's accesses (plic_read, plic_write).  pending[] is an array of *)
(* words, and setting or clearing a bit loads and stores a whole word: the *)
(* load and the store are separate steps here, so that _mutex matters.     *)
(*                                                                         *)
(* The guest is a disciplined driver: it routes every source to one        *)
(* context, claims only when it has completed its previous claim, and      *)
(* completes with the number it was given.                                 *)
(***************************************************************************)
EXTENDS Naturals, FiniteSets

CONSTANTS NumSources,   \* NUM_SOURCES (127)
          WordBits,     \* bits in a word of pending, mie and sie (32)
          Devices,      \* the device threads that call plic_signal
          Route,        \* the context the guest delivers each source to
          PrioritySlots,\* the words of priority[] that the guest writes
          Levels        \* the priorities and thresholds the guest writes

Sources  == 1..NumSources
Contexts == {"M", "S"}
Threads  == Devices \cup {"cpu"}

ASSUME PlicAssumption ==
  /\ NumSources \in Nat \ {0}
  /\ WordBits \in Nat \ {0}
  /\ "cpu" \notin Devices /\ "none" \notin Devices
  /\ Route \in [Sources -> Contexts]
  /\ PrioritySlots \subseteq 0..(NumSources + 5)
  /\ Levels \subseteq Nat

VARIABLES priority,    \* plic->priority, slot 0 included
          pt,          \* plic->mpt, plic->spt
          cc,          \* plic->mcc, plic->scc
          ie,          \* plic->mie, plic->sie, as sets of sources
          pending,     \* plic->pending, as a set of sources
          _mutex,      \* plic->_mutex: the thread that holds it
          op,          \* the read-modify-write of pending a thread is in
          inService,   \* the guest: what it has claimed and not completed
          raised,      \* history: signalled, and not returned by a claim since
          panic        \* the panic that ended the program

guestVars == <<priority, pt, ie>>
vars == <<priority, pt, cc, ie, pending, _mutex, op, inService, raised, panic>>

Idle == [kind |-> "idle", id |-> 0, word |-> {}]
Ops  == {Idle} \cup
        [kind : {"signal", "claimM", "claimS"}, id : Sources,
         word : SUBSET Sources]

TypeOK == /\ priority \in [0..NumSources -> 0..7]
          /\ pt \in [Contexts -> Nat]
          /\ cc \in [Contexts -> 0..NumSources]
          /\ ie \in [Contexts -> SUBSET Sources]
          /\ pending \subseteq Sources
          /\ _mutex \in Threads \cup {"none"}
          /\ op \in [Threads -> Ops]
          /\ inService \in [Contexts -> 0..NumSources]
          /\ raised \subseteq Sources
          /\ panic \in {"none", "bad claim", "bad complete"}

Running == panic = "none"

-----------------------------------------------------------------------------
(* Words of the bit arrays (_bit_pos).                                     *)

WordOf(id) == id \div WordBits
InWord(w)  == {id \in Sources : WordOf(id) = w}
Words      == 0..WordOf(NumSources)

Init == /\ priority = [i \in 0..NumSources |-> 0]
        /\ pt = [c \in Contexts |-> 0]
        /\ cc = [c \in Contexts |-> 0]
        /\ ie = [c \in Contexts |-> {}]
        /\ pending = {}
        /\ _mutex = "none"
        /\ op = [t \in Threads |-> Idle]
        /\ inService = [c \in Contexts |-> 0]
        /\ raised = {}
        /\ panic = "none"

-----------------------------------------------------------------------------
(* plic_signal, by a device thread or by the CPU thread (uart_write).      *)

\* Mutant: the word is loaded without taking the mutex.
SignalLoadUnlocked(t, id) ==
  /\ Running
  /\ op[t] = Idle
  /\ _mutex' = t
  /\ op' = [op EXCEPT ![t] = [kind |-> "signal", id |-> id,
                              word |-> pending \cap InWord(WordOf(id))]]
  /\ UNCHANGED <<guestVars, cc, pending, inService, raised, panic>>

\* pthread_mutex_lock, and the load of pending[index].
SignalLoad(t, id) ==
  /\ Running
  /\ op[t] = Idle
  /\ _mutex = "none"
  /\ _mutex' = t
  /\ op' = [op EXCEPT ![t] = [kind |-> "signal", id |-> id,
                              word |-> pending \cap InWord(WordOf(id))]]
  /\ UNCHANGED <<guestVars, cc, pending, inService, raised, panic>>

\* pending[index] is stored with the bit set, pthread_mutex_unlock.
SignalStore(t) ==
  /\ Running
  /\ op[t].kind = "signal"
  /\ LET o == op[t]
     IN  /\ pending' = (pending \ InWord(WordOf(o.id))) \cup o.word \cup {o.id}
         /\ raised' = raised \cup {o.id}
  /\ op' = [op EXCEPT ![t] = Idle]
  /\ _mutex' = "none"
  /\ UNCHANGED <<guestVars, cc, inService, panic>>

-----------------------------------------------------------------------------
(* plic_interrupt: the poll of the hart, for the context that an external  *)
(* interrupt would be taken in.  In every word only the lowest source that *)
(* is pending and enabled is looked at (first_one).                        *)

Contenders(c) == pending \cap ie[c]

FirstOne(c, id) ==
  /\ id \in Contenders(c)
  /\ \A other \in Contenders(c) : WordOf(other) = WordOf(id) => id <= other

Candidate(c, id) == FirstOne(c, id) /\ priority[id] > pt[c]

\* The words are scanned upwards, and the scan ends at the first candidate.
Selected(c, id) == /\ Candidate(c, id)
                   /\ \A other \in Sources : Candidate(c, other) => id <= other

PlicInterrupt(c) ==
  /\ Running
  /\ op["cpu"] = Idle
  /\ _mutex = "none"
  /\ \E id \in Sources : /\ Selected(c, id)
                         /\ cc' = [cc EXCEPT ![c] = id]
  /\ UNCHANGED <<guestVars, pending, _mutex, op, inService, raised, panic>>

-----------------------------------------------------------------------------
(* plic_read of a claim register.                                          *)

ClaimKind(c) == IF c = "M" THEN "claimM" ELSE "claimS"

\* An empty claim: M-mode panics, S-mode is answered 0 and nothing changes.
ClaimEmpty(c) ==
  /\ Running
  /\ op["cpu"] = Idle
  /\ inService[c] = 0
  /\ cc[c] = 0
  /\ panic' = IF c = "M" THEN "bad claim" ELSE panic
  /\ UNCHANGED <<guestVars, cc, pending, _mutex, op, inService, raised>>

\* clear_pending_bit: the mutex is taken and the word is loaded.
ClaimLoad(c) ==
  /\ Running
  /\ op["cpu"] = Idle
  /\ inService[c] = 0
  /\ cc[c] # 0
  /\ _mutex = "none"
  /\ _mutex' = "cpu"
  /\ op' = [op EXCEPT !["cpu"] = [kind |-> ClaimKind(c), id |-> cc[c],
                                  word |-> pending \cap InWord(WordOf(cc[c]))]]
  /\ UNCHANGED <<guestVars, cc, pending, inService, raised, panic>>

\* Mutant: the bit stays set.
ClaimStoreKeep(c) ==
  /\ Running
  /\ op["cpu"].kind = ClaimKind(c)
  /\ op' = [op EXCEPT !["cpu"] = Idle]
  /\ _mutex' = "none"
  /\ inService' = [inService EXCEPT ![c] = cc[c]]
  /\ UNCHANGED <<guestVars, cc, pending, raised, panic>>

\* The word is stored without the bit, and the guest is given the source; the
\* claim register keeps it.
ClaimStore(c) ==
  /\ Running
  /\ op["cpu"].kind = ClaimKind(c)
  /\ LET o == op["cpu"]
     IN  pending' = (pending \ InWord(WordOf(o.id))) \cup (o.word \ {o.id})
  /\ raised' = raised \ {cc[c]}
  /\ op' = [op EXCEPT !["cpu"] = Idle]
  /\ _mutex' = "none"
  /\ inService' = [inService EXCEPT ![c] = cc[c]]
  /\ UNCHANGED <<guestVars, cc, panic>>

-----------------------------------------------------------------------------
(* plic_write.                                                             *)

GuestAccess == Running /\ op["cpu"] = Idle

\* Mutant: the claim register is not reset.
CompleteNoReset(c) ==
  /\ GuestAccess
  /\ inService[c] # 0
  /\ IF cc[c] = inService[c] THEN UNCHANGED panic ELSE panic' = "bad complete"
  /\ inService' = [inService EXCEPT ![c] = 0]
  /\ UNCHANGED <<guestVars, cc, pending, _mutex, op, raised>>

\* Complete: the number must be the one in the claim register.
Complete(c) ==
  /\ GuestAccess
  /\ inService[c] # 0
  /\ \/ /\ cc[c] # inService[c]
        /\ panic' = "bad complete"
        /\ UNCHANGED <<cc, inService>>
     \/ /\ cc[c] = inService[c]
        /\ cc' = [cc EXCEPT ![c] = 0]
        /\ inService' = [inService EXCEPT ![c] = 0]
        /\ UNCHANGED panic
  /\ UNCHANGED <<guestVars, pending, _mutex, op, raised>>

\* The bits of a value, as the sources of word 0.
SourcesOfBits(v) == {id \in InWord(0) : (v \div 2^id) % 2 = 1}

\* A word at or below 0x210 is stored in priority[], whose last slot is
\* NumSources: the five words behind it are mpt, spt, mcc, scc and mie[0].
WritePriority(slot, data) ==
  /\ GuestAccess
  /\ priority' = IF slot \in 0..NumSources
                 THEN [priority EXCEPT ![slot] = data % 8] ELSE priority
  /\ pt' = CASE slot = NumSources + 1 -> [pt EXCEPT !["M"] = data % 8]
             [] slot = NumSources + 2 -> [pt EXCEPT !["S"] = data % 8]
             [] OTHER                 -> pt
  /\ cc' = CASE slot = NumSources + 3 -> [cc EXCEPT !["M"] = data % 8]
             [] slot = NumSources + 4 -> [cc EXCEPT !["S"] = data % 8]
             [] OTHER                 -> cc
  /\ ie' = IF slot = NumSources + 5
           THEN [ie EXCEPT !["M"] = (@ \ InWord(0)) \cup SourcesOfBits(data % 8)]
           ELSE ie
  /\ UNCHANGED <<pending, _mutex, op, inService, raised, panic>>

\* A word of mie or sie.
WriteEnable(c, w, ids) ==
  /\ GuestAccess
  /\ ie' = [ie EXCEPT ![c] = (@ \ InWord(w)) \cup ids]
  /\ UNCHANGED <<priority, pt, cc, pending, _mutex, op, inService, raised, panic>>

WriteThreshold(c, data) ==
  /\ GuestAccess
  /\ pt' = [pt EXCEPT ![c] = data]
  /\ UNCHANGED <<priority, cc, ie, pending, _mutex, op, inService, raised, panic>>

-----------------------------------------------------------------------------
Signalling == \E t \in Threads : \/ \E id \in Sources : SignalLoad(t, id)
                                 \/ SignalStore(t)

Configure == \/ \E slot \in PrioritySlots, data \in Levels :
                  WritePriority(slot, data)
             \/ \E c \in Contexts, w \in Words :
                  \E ids \in SUBSET {id \in InWord(w) : Route[id] = c} :
                    WriteEnable(c, w, ids)
             \/ \E c \in Contexts, data \in Levels : WriteThreshold(c, data)

Serve(c) == \/ PlicInterrupt(c)
            \/ ClaimEmpty(c)
            \/ ClaimLoad(c)
            \/ ClaimStore(c)
            \/ Complete(c)

\* After a panic nothing runs.
Next == \/ Signalling
        \/ Configure
        \/ \E c \in Contexts : Serve(c)

Spec == Init /\ [][Next]_vars

(* The hart polls between any two instructions and the guest answers its   *)
(* interrupts.  Strong fairness, because the CPU thread competes with the  *)
(* device threads for the mutex and does other things in between.          *)
Fairness ==
  /\ \A t \in Threads : WF_vars(SignalStore(t))
  /\ \A c \in Contexts : SF_vars(\/ PlicInterrupt(c)
                                  \/ ClaimLoad(c)
                                  \/ ClaimStore(c)
                                  \/ Complete(c))

FairSpec == Spec /\ Fairness

-----------------------------------------------------------------------------
(* Correctness.                                                            *)

\* No signal is lost and none is invented: the pending bits are exactly the
\* sources signalled and not handed to the guest since, although device threads
\* and the CPU thread load and store whole words of them (plic_signal,
\* clear_pending_bit).
NoSignalLost == pending = raised

\* A claim is never spurious: what the claim register offers a guest that has
\* completed its previous claim is a source that is still waiting, routed to
\* that context (plic_interrupt latches it, plic_read hands it out later).
ClaimIsPending ==
  \A c \in Contexts :
    inService[c] = 0 /\ cc[c] # 0 =>
      cc[c] \in pending /\ Route[cc[c]] = c

\* What plic_interrupt selects for a context does not stay selected: the guest
\* gets to claim it, something else goes first, or the program panics.
SelectedIsServed ==
  \A c \in Contexts, id \in Sources :
    Selected(c, id) ~> (~Selected(c, id) \/ ~Running)

\* A disciplined guest is never punished: the panic "bad complete" is for a
\* guest that completes what it has not claimed.
NoBadComplete == panic # "bad complete"
=============================================================================
