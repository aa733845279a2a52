----------------------------- MODULE PlicProofs -----------------------------
(***************************************************************************)
(* Proofs about Plic, for any number of sources, word width and number of  *)
(* device threads, and a guest that stays inside priority[]: no signal is  *)
(* lost, and no claim is spurious.                                         *)
(***************************************************************************)
EXTENDS Plic, TLAPS

\* The guest writes the priorities of real sources only.
GuestInBounds == PrioritySlots \subseteq 0..NumSources

\* Only the holder of _mutex is inside a read-modify-write, and the word it has
\* loaded is still the word in memory; only the CPU thread claims.
RmwOK == \A t \in Threads :
           /\ op[t] # Idle => /\ _mutex = t
                              /\ op[t].id \in Sources
                              /\ op[t].word = pending \cap InWord(WordOf(op[t].id))
           /\ t # "cpu" => op[t] = Idle \/ op[t].kind = "signal"

\* A claim under way is for the source in the claim register, and the guest has
\* no other claim open in that context.
ClaimOK == \A c \in Contexts :
             op["cpu"].kind = ClaimKind(c) => /\ op["cpu"].id = cc[c]
                                              /\ inService[c] = 0

\* The guest enables a source only in the context it routes it to.
RouteOK == \A c \in Contexts : \A id \in ie[c] : Route[id] = c

\* The inductive invariant.
IInv == TypeOK /\ RmwOK /\ ClaimOK /\ RouteOK /\ NoSignalLost /\ ClaimIsPending

LEMMA IdleKind == /\ Idle.kind = "idle"
                  /\ \A c \in Contexts : ClaimKind(c) \in {"claimM", "claimS"}
                  /\ \A c, d \in Contexts : ClaimKind(c) = ClaimKind(d) => c = d
BY DEF Idle, ClaimKind, Contexts

LEMMA InitIInv == Init => IInv
<1> SUFFICES ASSUME Init PROVE IInv
  OBVIOUS
<1> USE PlicAssumption DEF Init
<1>1. TypeOK
  BY DEF TypeOK, Contexts, Sources, Threads, Ops
<1>2. RmwOK
  BY DEF RmwOK
<1>3. ClaimOK
  BY IdleKind DEF ClaimOK, Threads
<1>4. RouteOK
  BY DEF RouteOK
<1>5. NoSignalLost /\ ClaimIsPending
  BY DEF NoSignalLost, ClaimIsPending
<1> QED
  BY <1>1, <1>2, <1>3, <1>4, <1>5 DEF IInv

\* Storing a word that is unchanged but for one bit sets or clears that bit.
LEMMA StoreWord ==
  ASSUME NEW P, NEW id \in Sources, P \subseteq Sources
  PROVE  LET W == InWord(WordOf(id))
         IN  /\ (P \ W) \cup (P \cap W) \cup {id} = P \cup {id}
             /\ (P \ W) \cup ((P \cap W) \ {id}) = P \ {id}
BY DEF InWord

LEMMA NextIInv == GuestInBounds /\ IInv /\ [Next]_vars => IInv'
<1> SUFFICES ASSUME GuestInBounds, IInv, [Next]_vars PROVE IInv'
  OBVIOUS
<1> USE PlicAssumption DEF IInv
<1>1. ASSUME NEW t \in Threads, NEW id \in Sources, SignalLoad(t, id) PROVE IInv'
  <2> DEFINE new == [kind |-> "signal", id |-> id,
                     word |-> pending \cap InWord(WordOf(id))]
  <2> HIDE DEF new
  <2>0. /\ new.kind = "signal" /\ new.id = id
        /\ new.word = pending \cap InWord(WordOf(id))
        /\ new \in Ops
    BY DEF new, Ops, TypeOK
  <2>1. /\ op' = [op EXCEPT ![t] = new] /\ op[t] = Idle
        /\ _mutex = "none" /\ _mutex' = t
        /\ UNCHANGED <<priority, pt, ie, cc, pending, inService, raised, panic>>
    BY <1>1 DEF SignalLoad, new, guestVars
  <2>2. TypeOK'
    BY <2>0, <2>1 DEF TypeOK
  <2>3. RmwOK'
    <3>1. \A u \in Threads : op[u] = Idle
      BY <2>1 DEF RmwOK, Threads
    <3>2. op'[t] = new /\ \A u \in Threads : u # t => op'[u] = Idle
      BY <2>1, <3>1 DEF TypeOK
    <3> QED
      BY <2>0, <2>1, <3>2 DEF RmwOK
  <2>4. ClaimOK'
    BY <2>0, <2>1, IdleKind DEF ClaimOK, TypeOK, Threads
  <2>5. RouteOK' /\ NoSignalLost' /\ ClaimIsPending'
    BY <2>1 DEF RouteOK, NoSignalLost, ClaimIsPending
  <2> QED
    BY <2>2, <2>3, <2>4, <2>5
<1>2. ASSUME NEW t \in Threads, SignalStore(t) PROVE IInv'
  <2> DEFINE id == op[t].id
  <2>0. op[t] # Idle /\ id \in Sources /\ _mutex = t
        /\ op[t].word = pending \cap InWord(WordOf(id))
    BY <1>2, IdleKind DEF SignalStore, RmwOK
  <2>1. pending' = pending \cup {id}
    BY <1>2, <2>0, StoreWord DEF SignalStore, TypeOK
  <2>2. /\ raised' = raised \cup {id}
        /\ op' = [op EXCEPT ![t] = Idle] /\ _mutex' = "none"
        /\ UNCHANGED <<priority, pt, ie, cc, inService, panic>>
    BY <1>2 DEF SignalStore, guestVars
  <2>3. \A u \in Threads : op'[u] = Idle
    BY <2>0, <2>2 DEF RmwOK, TypeOK
  <2>4. TypeOK'
    BY <2>0, <2>1, <2>2 DEF TypeOK, Ops
  <2>5. RmwOK'
    BY <2>3 DEF RmwOK
  <2>6. ClaimOK'
    BY <2>3, IdleKind DEF ClaimOK, Threads
  <2>7. RouteOK' /\ NoSignalLost' /\ ClaimIsPending'
    BY <2>1, <2>2 DEF RouteOK, NoSignalLost, ClaimIsPending
  <2> QED
    BY <2>4, <2>5, <2>6, <2>7
<1>3. ASSUME NEW slot \in PrioritySlots, NEW data \in Levels,
             WritePriority(slot, data)
      PROVE IInv'
  <2>1. slot \in 0..NumSources
    BY DEF GuestInBounds
  <2>2. data % 8 \in 0..7
    BY DEF Sources
  <2>3. /\ priority' = [priority EXCEPT ![slot] = data % 8]
        /\ UNCHANGED <<pt, cc, ie>>
    BY <1>3, <2>1 DEF WritePriority
  <2>4. UNCHANGED <<pending, _mutex, op, inService, raised, panic>>
    BY <1>3 DEF WritePriority
  <2>5. TypeOK'
    BY <2>1, <2>2, <2>3, <2>4 DEF TypeOK
  <2> QED
    BY <2>3, <2>4, <2>5 DEF RmwOK, ClaimOK, RouteOK, NoSignalLost, ClaimIsPending
<1>4. ASSUME NEW c \in Contexts, NEW w \in Words,
             NEW ids \in SUBSET {id \in InWord(w) : Route[id] = c},
             WriteEnable(c, w, ids)
      PROVE IInv'
  <2>1. /\ ie' = [ie EXCEPT ![c] = (@ \ InWord(w)) \cup ids]
        /\ UNCHANGED <<priority, pt, cc, pending, _mutex, op, inService, raised, panic>>
    BY <1>4 DEF WriteEnable
  <2>2. TypeOK'
    BY <2>1 DEF TypeOK, InWord
  <2>3. RouteOK'
    BY <2>1 DEF TypeOK, RouteOK
  <2> QED
    BY <2>1, <2>2, <2>3 DEF RmwOK, ClaimOK, NoSignalLost, ClaimIsPending
<1>5. ASSUME NEW c \in Contexts, NEW data \in Levels, WriteThreshold(c, data)
      PROVE IInv'
  <2>1. /\ pt' = [pt EXCEPT ![c] = data]
        /\ UNCHANGED <<priority, cc, ie, pending, _mutex, op, inService, raised, panic>>
    BY <1>5 DEF WriteThreshold
  <2>2. TypeOK'
    BY <2>1 DEF TypeOK
  <2> QED
    BY <2>1, <2>2 DEF RmwOK, ClaimOK, RouteOK, NoSignalLost, ClaimIsPending
<1>6. ASSUME NEW c \in Contexts, PlicInterrupt(c) PROVE IInv'
  <2>1. PICK id \in Sources : Selected(c, id) /\ cc' = [cc EXCEPT ![c] = id]
    BY <1>6 DEF PlicInterrupt
  <2>2. id \in pending /\ id \in ie[c]
    BY <2>1 DEF Selected, Candidate, FirstOne, Contenders
  <2>3. /\ op["cpu"] = Idle
        /\ UNCHANGED <<priority, pt, ie, pending, _mutex, op, inService, raised, panic>>
    BY <1>6 DEF PlicInterrupt, guestVars
  <2>4. TypeOK'
    <3>1. id \in 0..NumSources
      BY DEF Sources
    <3> QED
      BY <2>1, <2>3, <3>1 DEF TypeOK
  <2>5. ClaimOK'
    BY <2>3, IdleKind DEF ClaimOK
  <2>6. ClaimIsPending'
    BY <2>1, <2>2, <2>3 DEF ClaimIsPending, RouteOK, TypeOK
  <2> QED
    BY <2>3, <2>4, <2>5, <2>6 DEF RmwOK, RouteOK, NoSignalLost
<1>7. ASSUME NEW c \in Contexts, ClaimEmpty(c) PROVE IInv'
  <2>1. /\ panic' \in {"bad claim", panic}
        /\ UNCHANGED <<priority, pt, ie, cc, pending, _mutex, op, inService, raised>>
    BY <1>7 DEF ClaimEmpty, guestVars
  <2>2. TypeOK'
    BY <2>1 DEF TypeOK
  <2> QED
    BY <2>1, <2>2 DEF RmwOK, ClaimOK, RouteOK, NoSignalLost, ClaimIsPending
<1>8. ASSUME NEW c \in Contexts, ClaimLoad(c) PROVE IInv'
  <2> DEFINE new == [kind |-> ClaimKind(c), id |-> cc[c],
                     word |-> pending \cap InWord(WordOf(cc[c]))]
  <2> HIDE DEF new
  <2>1. /\ op' = [op EXCEPT !["cpu"] = new] /\ op["cpu"] = Idle
        /\ _mutex = "none" /\ _mutex' = "cpu"
        /\ inService[c] = 0 /\ cc[c] # 0
        /\ UNCHANGED <<priority, pt, ie, cc, pending, inService, raised, panic>>
    BY <1>8 DEF ClaimLoad, new, guestVars
  <2>2. cc[c] \in Sources
    BY <2>1 DEF ClaimIsPending, TypeOK
  <2>3. /\ new.kind = ClaimKind(c) /\ new.id = cc[c]
        /\ new.word = pending \cap InWord(WordOf(cc[c]))
        /\ new \in Ops
    BY <2>2, IdleKind DEF new, Ops, TypeOK
  <2>4. TypeOK'
    BY <2>1, <2>3 DEF TypeOK, Threads
  <2>5. RmwOK'
    <3>1. \A u \in Threads : op[u] = Idle
      BY <2>1 DEF RmwOK, Threads
    <3>2. op'["cpu"] = new /\ \A u \in Threads : u # "cpu" => op'[u] = Idle
      BY <2>1, <3>1 DEF TypeOK, Threads
    <3> QED
      BY <2>1, <2>2, <2>3, <3>2 DEF RmwOK
  <2>6. ClaimOK'
    BY <2>1, <2>3, IdleKind DEF ClaimOK, TypeOK, Threads
  <2>7. RouteOK' /\ NoSignalLost' /\ ClaimIsPending'
    BY <2>1 DEF RouteOK, NoSignalLost, ClaimIsPending
  <2> QED
    BY <2>4, <2>5, <2>6, <2>7
<1>9. ASSUME NEW c \in Contexts, ClaimStore(c) PROVE IInv'
  <2> DEFINE id == op["cpu"].id
  <2>0. /\ op["cpu"] # Idle /\ id \in Sources /\ _mutex = "cpu"
        /\ op["cpu"].word = pending \cap InWord(WordOf(id))
        /\ id = cc[c] /\ inService[c] = 0
    BY <1>9, IdleKind DEF ClaimStore, RmwOK, ClaimOK, Threads
  <2>1. pending' = pending \ {id}
    <3>1. pending' = (pending \ InWord(WordOf(id)))
                       \cup ((pending \cap InWord(WordOf(id))) \ {id})
      BY <1>9, <2>0 DEF ClaimStore
    <3> QED
      BY <2>0, <3>1, StoreWord DEF TypeOK
  <2>2. /\ raised' = raised \ {id}
        /\ op' = [op EXCEPT !["cpu"] = Idle] /\ _mutex' = "none"
        /\ inService' = [inService EXCEPT ![c] = id]
        /\ UNCHANGED <<priority, pt, ie, cc, panic>>
    BY <1>9, <2>0 DEF ClaimStore, guestVars
  <2>3. \A u \in Threads : op'[u] = Idle
    BY <2>0, <2>2 DEF RmwOK, TypeOK
  <2>4. TypeOK'
    BY <2>0, <2>1, <2>2 DEF TypeOK, Ops, Sources
  <2>5. RmwOK'
    BY <2>3 DEF RmwOK
  <2>6. ClaimOK'
    BY <2>3, IdleKind DEF ClaimOK, Threads
  <2>7. RouteOK' /\ NoSignalLost'
    BY <2>1, <2>2 DEF RouteOK, NoSignalLost
  <2>8. ClaimIsPending'
    <3> SUFFICES ASSUME NEW d \in Contexts, inService'[d] = 0, cc'[d] # 0
                 PROVE  cc'[d] \in pending' /\ Route[cc'[d]] = d
      BY DEF ClaimIsPending
    <3>1. d # c
      BY <2>0, <2>2 DEF TypeOK, Sources
    <3>2. cc[d] \in pending /\ Route[cc[d]] = d
      BY <2>2, <3>1 DEF ClaimIsPending, TypeOK
    <3>3. Route[cc[c]] = c
      BY <2>0 DEF ClaimIsPending, Sources
    <3> QED
      BY <2>0, <2>1, <2>2, <3>1, <3>2, <3>3
  <2> QED
    BY <2>4, <2>5, <2>6, <2>7, <2>8
<1>10. ASSUME NEW c \in Contexts, Complete(c) PROVE IInv'
  <2>0. /\ op["cpu"] = Idle /\ inService[c] # 0
        /\ UNCHANGED <<priority, pt, ie, pending, _mutex, op, raised>>
    BY <1>10 DEF Complete, GuestAccess, guestVars
  <2>1. CASE cc[c] # inService[c]
    <3>1. panic' = "bad complete" /\ UNCHANGED <<cc, inService>>
      BY <1>10, <2>1 DEF Complete
    <3>2. TypeOK'
      BY <2>0, <3>1 DEF TypeOK
    <3> QED
      BY <2>0, <3>1, <3>2 DEF RmwOK, ClaimOK, RouteOK, NoSignalLost, ClaimIsPending
  <2>2. CASE cc[c] = inService[c]
    <3>1. /\ cc' = [cc EXCEPT ![c] = 0] /\ inService' = [inService EXCEPT ![c] = 0]
          /\ UNCHANGED panic
      BY <1>10, <2>2 DEF Complete
    <3>2. TypeOK'
      <4>1. 0 \in 0..NumSources
        OBVIOUS
      <4> QED
        BY <2>0, <3>1, <4>1 DEF TypeOK
    <3>3. ClaimOK'
      BY <2>0, IdleKind DEF ClaimOK
    <3>4. ClaimIsPending'
      BY <2>0, <3>1 DEF ClaimIsPending, TypeOK
    <3> QED
      BY <2>0, <3>1, <3>2, <3>3, <3>4 DEF RmwOK, RouteOK, NoSignalLost
  <2> QED
    BY <2>1, <2>2
<1>11. CASE UNCHANGED vars
  BY <1>11 DEF vars, TypeOK, RmwOK, ClaimOK, RouteOK, NoSignalLost, ClaimIsPending
<1> QED
  BY <1>1, <1>2, <1>3, <1>4, <1>5, <1>6, <1>7, <1>8, <1>9, <1>10, <1>11
     DEF Next, Signalling, Configure, Serve

\* The inductive invariant holds in every reachable state.
THEOREM Invariance == GuestInBounds /\ Spec => []IInv
<1> SUFFICES ASSUME GuestInBounds PROVE Spec => []IInv
  OBVIOUS
<1>1. IInv /\ [Next]_vars => IInv'
  BY NextIInv
<1> QED
  BY <1>1, InitIInv, PTL DEF Spec

\* The registers and arrays of plic.c keep their ranges.
THEOREM TypeCorrect == GuestInBounds /\ Spec => []TypeOK
<1>1. IInv => TypeOK
  BY DEF IInv
<1> QED
  BY <1>1, Invariance, PTL

\* pending[] of plic.c holds exactly what was signalled and not yet claimed, however
\* device threads and the CPU thread interleave their updates of its words.
THEOREM SignalsKept == GuestInBounds /\ Spec => []NoSignalLost
<1>1. IInv => NoSignalLost
  BY DEF IInv
<1> QED
  BY <1>1, Invariance, PTL

\* A disciplined guest never claims a source that is not waiting.
THEOREM ClaimsAreReal == GuestInBounds /\ Spec => []ClaimIsPending
<1>1. IInv => ClaimIsPending
  BY DEF IInv
<1> QED
  BY <1>1, Invariance, PTL
=============================================================================
