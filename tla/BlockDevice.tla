---------------------------- MODULE BlockDevice ----------------------------
(***************************************************************************)
(* What a virtio block device promises its driver, without rings, threads  *)
(* and interrupts: every submitted request is executed once, in the order  *)
(* of submission, and is given back once, in the same order, after it has  *)
(* been executed.  VirtioBlk implements this specification.                *)
(***************************************************************************)
EXTENDS Naturals, Sequences

CONSTANTS Heads,      \* the descriptors that name requests
          Requests,   \* the requests a driver may make
          NoRequest,  \* a descriptor that is free
          Sectors,    \* the sectors of the disk
          Blank       \* what an untouched sector or buffer holds

VARIABLES disk,       \* contents of the sectors
          request,    \* what each descriptor asks for
          buffer,     \* the data of each request
          todo,       \* submitted, in order
          done        \* executed and not yet given back, in order

vars == <<disk, request, buffer, todo, done>>

Init == /\ disk = [s \in Sectors |-> Blank]
        /\ request = [h \in Heads |-> NoRequest]
        /\ buffer = [h \in Heads |-> Blank]
        /\ todo = <<>>
        /\ done = <<>>

Submit == \E h \in Heads, r \in Requests :
            /\ request[h] = NoRequest
            /\ request' = [request EXCEPT ![h] = r]
            /\ buffer' = [buffer EXCEPT ![h] = r.data]
            /\ todo' = Append(todo, h)
            /\ UNCHANGED <<disk, done>>

Execute ==
  /\ todo # <<>>
  /\ LET h == Head(todo)
         r == request[h]
     IN  /\ disk' = IF r.kind = "out" THEN [disk EXCEPT ![r.sector] = buffer[h]]
                    ELSE disk
         /\ buffer' = IF r.kind = "in" THEN [buffer EXCEPT ![h] = disk[r.sector]]
                      ELSE buffer
         /\ done' = Append(done, h)
  /\ todo' = Tail(todo)
  /\ UNCHANGED request

GiveBack == /\ done # <<>>
            /\ request' = [request EXCEPT ![Head(done)] = NoRequest]
            /\ done' = Tail(done)
            /\ UNCHANGED <<disk, buffer, todo>>

Next == Submit \/ Execute \/ GiveBack

Spec == Init /\ [][Next]_vars
=============================================================================
