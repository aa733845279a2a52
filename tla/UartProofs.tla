----------------------------- MODULE UartProofs -----------------------------
(***************************************************************************)
(* Proofs about Uart, for any number of keys and any enables: on a host    *)
(* that delays at most one store of a thread no key is left unannounced,   *)
(* and on one that delays none the driver is told of the data there is.    *)
(***************************************************************************)
EXTENDS Uart, SequenceTheorems, TLAPS

-----------------------------------------------------------------------------
(* The inductive invariant.                                                *)

Registers == {"rbr", "dr", "ier", "iir"}
Waiting(t) == Head(buf[t])
InRbr == {"rbrIir", "rbrSignal", "rbrReturn"}

\* The memory is a function, and every thread has a buffer.
ShapeOK == /\ depth \in Nat
           /\ DOMAIN mem = Registers /\ mem = [r \in Registers |-> mem[r]]
           /\ DOMAIN buf = Threads /\ buf = [t \in Threads |-> buf[t]]

\* At most one store waits, on a host that keeps the program order none.
SmallOK == depth <= 1 =>
  \A t \in Threads : /\ buf[t] = << >> \/ buf[t] = <<Waiting(t)>>
                     /\ depth = 0 => buf[t] = << >>

\* The CPU thread stores no key, and a cleared DR waits only before the key is
\* fetched.
CpuOK == depth <= 1 /\ buf["cpu"] # << >> =>
  /\ Waiting("cpu")[1] \in {"dr", "ier", "iir"}
  /\ Waiting("cpu")[1] = "dr" => Waiting("cpu")[2] = FALSE /\ cpuPc = "rbrIir"

\* A key waits only before DR is set, and the last one when the thread has ended.
IoOK == depth <= 1 /\ buf["io"] # << >> =>
  \/ Waiting("io") = <<"rbr", CtrlC>>
  \/ Waiting("io")[1] = "rbr" /\ ioPc = "setDr"
  \/ Waiting("io") = <<"dr", TRUE>>
  \/ Waiting("io")[1] = "iir"

\* An unread key is announced, or is about to be, or is about to be read.
AnnouncedOK == depth <= 1 /\ Unread =>
  \/ mem["dr"] = TRUE
  \/ ioPc = "setDr"
  \/ buf["io"] # << >> /\ Waiting("io") = <<"dr", TRUE>>
  \/ cpuPc \in InRbr

\* If the driver is to be told of data and is not, one of the threads is about to.
ToldOK ==
  depth = 0 /\ mem["dr"] = TRUE /\ "RDI" \in mem["ier"] /\ ~irq /\ guest = "run" =>
    \/ ioPc \in {"testIer", "setIir", "signal"}
    \/ cpuPc = "ierTest"
    \/ cpuPc = "ierSignal" /\ mem["iir"] # "NO_INT"

IInv == ShapeOK /\ SmallOK /\ CpuOK /\ IoOK /\ AnnouncedOK /\ ToldOK

-----------------------------------------------------------------------------
(* The memory of the host.                                                 *)

\* A store changes one register, or waits in a buffer that was empty.
LEMMA StoreIs ==
  ASSUME ShapeOK, SmallOK, depth <= 1, NEW t \in Threads, NEW reg \in Registers, NEW val,
         Store(t, reg, val)
  PROVE  \/ /\ depth = 0 /\ buf' = buf /\ mem'[reg] = val
            /\ \A r \in Registers \ {reg} : mem'[r] = mem[r]
         \/ /\ depth = 1 /\ mem' = mem /\ buf[t] = << >>
            /\ buf'[t] = << <<reg, val>> >> /\ Head(buf'[t]) = <<reg, val>>
            /\ \A u \in Threads \ {t} : buf'[u] = buf[u]
<1>1. CASE depth = 0
  BY <1>1 DEF Store, ShapeOK
<1>2. CASE depth # 0
  <2>1. depth = 1
    BY <1>2 DEF ShapeOK
  <2>2. /\ Len(buf[t]) < 1 /\ mem' = mem
        /\ buf' = [buf EXCEPT ![t] = Append(@, <<reg, val>>)]
    BY <2>1 DEF Store
  <2> DEFINE e == Waiting(t)
  <2>3. buf[t] = << >> \/ buf[t] = <<e>>
    BY <2>1 DEF SmallOK
  <2> HIDE DEF e
  <2>4. Len(<<e>>) = 1
    OBVIOUS
  <2>5. buf[t] = << >>
    BY <2>2, <2>3, <2>4
  <2>6. Append(<< >>, <<reg, val>>) = << <<reg, val>> >> /\ Head(<< <<reg, val>> >>) = <<reg, val>>
    OBVIOUS
  <2>7. buf'[t] = << <<reg, val>> >> /\ \A u \in Threads \ {t} : buf'[u] = buf[u]
    BY <2>2, <2>5, <2>6 DEF ShapeOK
  <2> QED
    BY <2>1, <2>2, <2>5, <2>6, <2>7
<1> QED
  BY <1>1, <1>2

\* A thread sees its own waiting store before the memory.
LEMMA LoadIs ==
  ASSUME ShapeOK, SmallOK, depth <= 1, NEW t \in Threads, NEW reg \in Registers
  PROVE  /\ buf[t] # << >> /\ Waiting(t)[1] = reg => Load(t, reg) = Waiting(t)[2]
         /\ buf[t] = << >> \/ Waiting(t)[1] # reg => Load(t, reg) = mem[reg]
<1> DEFINE e == Waiting(t)
<1>1. buf[t] = << >> \/ buf[t] = <<e>>
  BY DEF SmallOK
<1>2. CASE buf[t] = << >>
  <2>1. Mine(t, reg) = {}
    BY <1>2 DEF Mine
  <2> QED
    BY <1>2, <2>1 DEF Load
<1>3. CASE buf[t] # << >>
  <2>1. buf[t] = <<e>>
    BY <1>1, <1>3
  <2> HIDE DEF e
  <2>2. DOMAIN buf[t] = {1} /\ buf[t][1] = e
    BY <2>1
  <2>3. CASE e[1] = reg
    <3>1. Mine(t, reg) = {1}
      BY <2>2, <2>3 DEF Mine
    <3>2. (CHOOSE i \in {1} : \A j \in {1} : j <= i) = 1
      OBVIOUS
    <3>3. Load(t, reg) = e[2]
      BY <2>2, <3>1, <3>2 DEF Load
    <3> QED
      BY <1>3, <2>3, <3>3 DEF e
  <2>4. CASE e[1] # reg
    <3>1. Mine(t, reg) = {}
      BY <2>2, <2>4 DEF Mine
    <3> QED
      BY <2>4, <3>1 DEF Load, e
  <2> QED
    BY <2>3, <2>4
<1> QED
  BY <1>2, <1>3

\* A buffer of one store that drains is empty, and the register has the value.
LEMMA DrainIs ==
  ASSUME ShapeOK, SmallOK, depth <= 1, NEW t \in Threads, Drain(t),
         Waiting(t)[1] \in Registers
  PROVE  /\ depth = 1 /\ buf[t] # << >> /\ buf'[t] = << >>
         /\ \A u \in Threads \ {t} : buf'[u] = buf[u]
         /\ mem'[Waiting(t)[1]] = Waiting(t)[2]
         /\ \A r \in Registers \ {Waiting(t)[1]} : mem'[r] = mem[r]
<1> DEFINE e == Waiting(t)
<1>1. buf[t] # << >> /\ mem' = [mem EXCEPT ![e[1]] = e[2]]
      /\ buf' = [buf EXCEPT ![t] = Tail(@)]
  BY DEF Drain, Waiting
<1>2. buf[t] = <<e>> /\ depth = 1
  BY <1>1 DEF SmallOK, ShapeOK
<1> HIDE DEF e
<1>3. Tail(<<e>>) = << >>
  OBVIOUS
<1>4. buf'[t] = << >> /\ \A u \in Threads \ {t} : buf'[u] = buf[u]
  BY <1>1, <1>2, <1>3 DEF ShapeOK
<1>5. e[1] \in Registers
  BY DEF e
<1>6. mem'[e[1]] = e[2] /\ \A r \in Registers \ {e[1]} : mem'[r] = mem[r]
  BY <1>1, <1>5 DEF ShapeOK
<1> QED
  BY <1>1, <1>2, <1>4, <1>6 DEF e

-----------------------------------------------------------------------------
(* The initial states.                                                     *)

\* Nothing waits, and no key is there.
LEMMA Start == Init => IInv
<1> SUFFICES ASSUME Init PROVE IInv
  OBVIOUS
<1>1. ShapeOK
  <2>1. depth \in Nat
    BY UartAssumption DEF Init
  <2>2. DOMAIN mem = Registers /\ mem = [r \in Registers |-> mem[r]]
    BY DEF Init, Registers
  <2>3. DOMAIN buf = Threads /\ buf = [t \in Threads |-> buf[t]]
    BY DEF Init
  <2> QED
    BY <2>1, <2>2, <2>3 DEF ShapeOK
<1>2. \A t \in Threads : buf[t] = << >>
  BY DEF Init
<1>3. SmallOK /\ CpuOK /\ IoOK
  BY <1>2 DEF SmallOK, CpuOK, IoOK, Threads
<1>4. AnnouncedOK
  BY DEF AnnouncedOK, Unread, Init
<1>5. ToldOK
  BY DEF ToldOK, Init
<1> QED
  BY <1>1, <1>3, <1>4, <1>5 DEF IInv

-----------------------------------------------------------------------------
(* The steps.                                                              *)

\* A store keeps the memory and the buffers functions.
LEMMA StoreShape ==
  ASSUME ShapeOK, NEW t \in Threads, NEW reg, NEW val, Store(t, reg, val)
  PROVE  /\ DOMAIN mem' = Registers /\ mem' = [r \in Registers |-> mem'[r]]
         /\ DOMAIN buf' = Threads /\ buf' = [u \in Threads |-> buf'[u]]
<1>1. (mem' = [mem EXCEPT ![reg] = val] /\ buf' = buf)
      \/ (mem' = mem /\ buf' = [buf EXCEPT ![t] = Append(@, <<reg, val>>)])
  BY Zenon DEF Store
<1> QED
  BY <1>1 DEF ShapeOK

\* So does every step, and the host is always the same.
LEMMA ShapeStep ==
  ASSUME IInv, [Next]_vars
  PROVE  ShapeOK' /\ depth' = depth
<1> USE DEF IInv
<1>1. depth' = depth
  BY DEF Next, CpuStep, IoStep, Handler, vars, ReadRbr, ReadRbrIir, ReadRbrSignal, ReadRbrReturn,
         ReadIir, ReadIirReset, ReadLsr, WriteThr, WriteIer, WriteIerTest, WriteIerSignal,
         WriteFcr, WriteLcr, Getch, Escape, SetDr, TestIer, SetIir, Signal, Claim, Drain
<1> DEFINE Kept == /\ DOMAIN mem' = Registers /\ mem' = [r \in Registers |-> mem'[r]]
                   /\ DOMAIN buf' = Threads /\ buf' = [u \in Threads |-> buf'[u]]
<1>2. ASSUME NEW t \in Threads, NEW reg, NEW val, Store(t, reg, val) PROVE Kept
  BY <1>2, StoreShape
<1>3. ASSUME UNCHANGED <<mem, buf>> PROVE Kept
  BY <1>3 DEF ShapeOK
<1>4. ASSUME NEW t \in Threads, Drain(t) PROVE Kept
  BY <1>4 DEF Drain, ShapeOK
<1>5. ASSUME NEW t \in Threads, plic_signal(t) PROVE Kept
  BY <1>3, <1>5 DEF plic_signal
<1> HIDE DEF Kept
<1>6. "cpu" \in Threads /\ "io" \in Threads
  BY DEF Threads
<1>7. ASSUME ReadRbr \/ ReadRbrIir \/ ReadIirReset \/ WriteIerTest PROVE Kept
  BY <1>2, <1>6, <1>7 DEF ReadRbr, ReadRbrIir, ReadIirReset, WriteIerTest
<1>8. ASSUME ReadRbrSignal \/ WriteIerSignal \/ Signal PROVE Kept
  BY <1>3, <1>5, <1>6, <1>8 DEF ReadRbrSignal, WriteIerSignal, Signal
<1>9. ASSUME ReadRbrReturn \/ ReadIir \/ ReadLsr \/ WriteThr \/ TestIer \/ Claim PROVE Kept
  BY <1>3, <1>9 DEF ReadRbrReturn, ReadIir, ReadLsr, WriteThr, TestIer, Claim
<1>10. ASSUME NEW data, WriteIer(data) PROVE Kept
  BY <1>2, <1>6, <1>10 DEF WriteIer
<1>11. ASSUME NEW on, WriteFcr(on) PROVE Kept
  BY <1>2, <1>6, <1>11 DEF WriteFcr
<1>12. ASSUME NEW on, WriteLcr(on) PROVE Kept
  BY <1>3, <1>12 DEF WriteLcr
<1>13. ASSUME Getch \/ Escape \/ SetDr \/ SetIir PROVE Kept
  BY <1>2, <1>6, <1>13 DEF Getch, Escape, SetDr, SetIir
<1>14. ASSUME UNCHANGED vars PROVE Kept
  BY <1>3, <1>14 DEF vars
<1>15. Kept
  BY <1>4, <1>7, <1>8, <1>9, <1>10, <1>11, <1>12, <1>13, <1>14
     DEF Next, CpuStep, IoStep, Handler
<1> QED
  BY <1>1, <1>15 DEF Kept, ShapeOK

\* The buffers stay as they are meant.
LEMMA BufferStep ==
  ASSUME IInv, [Next]_vars, depth <= 1
  PROVE  (SmallOK /\ CpuOK /\ IoOK)'
<1> USE DEF IInv
<1>1. /\ depth' = depth /\ "cpu" \in Threads /\ "io" \in Threads
      /\ {"rbr", "dr", "ier", "iir"} = Registers
      /\ \A t \in Threads : t = "cpu" \/ t = "io"
  BY ShapeStep DEF Threads, Registers
<1> DEFINE Slim(t)  == /\ buf'[t] = << >> \/ buf'[t] = <<Head(buf'[t])>>
                       /\ depth = 0 => buf'[t] = << >>
           CpuGood  == buf'["cpu"] # << >> =>
                         /\ Head(buf'["cpu"])[1] \in {"dr", "ier", "iir"}
                         /\ Head(buf'["cpu"])[1] = "dr"
                              => Head(buf'["cpu"])[2] = FALSE /\ cpuPc' = "rbrIir"
           IoGood   == buf'["io"] # << >> =>
                         \/ Head(buf'["io"]) = <<"rbr", CtrlC>>
                         \/ Head(buf'["io"])[1] = "rbr" /\ ioPc' = "setDr"
                         \/ Head(buf'["io"]) = <<"dr", TRUE>>
                         \/ Head(buf'["io"])[1] = "iir"
           All      == Slim("cpu") /\ Slim("io") /\ CpuGood /\ IoGood
<1>2. SUFFICES All
  BY <1>1 DEF SmallOK, CpuOK, IoOK, Waiting
\* A thread that does not store.
<1>3. ASSUME buf'["cpu"] = buf["cpu"], cpuPc = "rbrIir" => cpuPc' = "rbrIir"
      PROVE  Slim("cpu") /\ CpuGood
  BY <1>1, <1>3 DEF CpuOK, SmallOK, Waiting
<1>4. ASSUME buf'["io"] = buf["io"], ioPc = "setDr" => ioPc' = "setDr"
      PROVE  Slim("io") /\ IoGood
  BY <1>1, <1>4 DEF IoOK, SmallOK, Waiting
\* One that stores.
<1>5. ASSUME NEW reg \in Registers, NEW val, Store("cpu", reg, val)
      PROVE  /\ Slim("cpu") /\ buf'["io"] = buf["io"]
             /\ \/ buf'["cpu"] = << >>
                \/ /\ Head(buf'["cpu"]) = <<reg, val>> /\ Head(buf'["cpu"])[1] = reg
                   /\ Head(buf'["cpu"])[2] = val
  <2>1. CASE depth = 0 /\ buf' = buf
    BY <1>1, <2>1 DEF SmallOK
  <2>2. CASE /\ depth = 1 /\ buf'["cpu"] = << <<reg, val>> >>
             /\ Head(buf'["cpu"]) = <<reg, val>>
             /\ \A u \in Threads \ {"cpu"} : buf'[u] = buf[u]
    BY <1>1, <2>2
  <2> QED
    BY <1>1, <1>5, <2>1, <2>2, StoreIs
<1>6. ASSUME NEW reg \in Registers, NEW val, Store("io", reg, val)
      PROVE  /\ Slim("io") /\ buf'["cpu"] = buf["cpu"]
             /\ \/ buf'["io"] = << >>
                \/ /\ Head(buf'["io"]) = <<reg, val>> /\ Head(buf'["io"])[1] = reg
                   /\ Head(buf'["io"])[2] = val
  <2>1. CASE depth = 0 /\ buf' = buf
    BY <1>1, <2>1 DEF SmallOK
  <2>2. CASE /\ depth = 1 /\ buf'["io"] = << <<reg, val>> >>
             /\ Head(buf'["io"]) = <<reg, val>>
             /\ \A u \in Threads \ {"io"} : buf'[u] = buf[u]
    BY <1>1, <2>2
  <2> QED
    BY <1>1, <1>6, <2>1, <2>2, StoreIs
<1> HIDE DEF Slim
<1>7. CASE ReadRbr
  <2>1. /\ Store("cpu", "dr", FALSE) /\ cpuPc' = "rbrIir" /\ ioPc' = ioPc
    BY <1>7 DEF ReadRbr
  <2> QED
    BY <1>1, <1>4, <1>5, <2>1
<1>8. ASSUME NEW reg \in {"ier", "iir"}, NEW val, Store("cpu", reg, val), ioPc' = ioPc PROVE All
  BY <1>1, <1>4, <1>5, <1>8
<1>9. CASE ReadRbrIir \/ ReadIirReset \/ WriteIerTest
  <2>1. ioPc' = ioPc /\ \E val : Store("cpu", "iir", val)
    BY <1>9 DEF ReadRbrIir, ReadIirReset, WriteIerTest
  <2> QED
    BY <1>8, <2>1
<1>10. ASSUME NEW data, WriteIer(data) PROVE All
  <2>1. ioPc' = ioPc /\ Store("cpu", "ier", data)
    BY <1>10 DEF WriteIer
  <2> QED
    BY <1>8, <2>1
<1>11. ASSUME NEW on, WriteFcr(on) PROVE All
  <2>1. ioPc' = ioPc /\ \E val : Store("cpu", "iir", val)
    BY <1>11 DEF WriteFcr
  <2> QED
    BY <1>8, <2>1
<1>12. ASSUME buf' = buf, cpuPc # "rbrIir", ioPc' = ioPc PROVE All
  BY <1>3, <1>4, <1>12
<1>13. CASE ReadRbrSignal \/ WriteIerSignal
  <2>1. buf' = buf
    BY <1>13 DEF ReadRbrSignal, WriteIerSignal, plic_signal
  <2>2. cpuPc # "rbrIir" /\ ioPc' = ioPc
    BY <1>13 DEF ReadRbrSignal, WriteIerSignal
  <2> QED
    BY <1>12, <2>1, <2>2
<1>14. CASE ReadRbrReturn \/ ReadIir \/ ReadLsr \/ WriteThr \/ Claim
  BY <1>12, <1>14 DEF ReadRbrReturn, ReadIir, ReadLsr, WriteThr, Claim
<1>15. ASSUME NEW on, WriteLcr(on) PROVE All
  BY <1>12, <1>15 DEF WriteLcr
<1>16. CASE Getch
  <2>1. Store("io", "rbr", typed + 1) /\ ioPc' = "setDr" /\ cpuPc' = cpuPc
    BY <1>16 DEF Getch
  <2> QED
    BY <1>1, <1>3, <1>6, <2>1
<1>17. CASE Escape
  <2>1. Store("io", "rbr", CtrlC) /\ cpuPc' = cpuPc
    BY <1>17 DEF Escape
  <2> QED
    BY <1>1, <1>3, <1>6, <2>1
<1>18. CASE SetDr
  <2>1. Store("io", "dr", TRUE) /\ cpuPc' = cpuPc
    BY <1>18 DEF SetDr
  <2> QED
    BY <1>1, <1>3, <1>6, <2>1
<1>19. CASE SetIir
  <2>1. Store("io", "iir", "RDI") /\ cpuPc' = cpuPc
    BY <1>19 DEF SetIir
  <2> QED
    BY <1>1, <1>3, <1>6, <2>1
<1>20. CASE TestIer \/ Signal
  <2>1. buf' = buf /\ cpuPc' = cpuPc /\ ioPc # "setDr"
    BY <1>20 DEF TestIer, Signal, plic_signal
  <2> QED
    BY <1>3, <1>4, <2>1
<1>21. CASE UNCHANGED vars
  <2>1. buf' = buf /\ cpuPc' = cpuPc /\ ioPc' = ioPc
    BY <1>21 DEF vars
  <2> QED
    BY <1>3, <1>4, <2>1
<1>22. ASSUME NEW t \in Threads, Drain(t) PROVE All
  <2>1. /\ buf[t] # << >> /\ buf' = [buf EXCEPT ![t] = Tail(@)] /\ cpuPc' = cpuPc /\ ioPc' = ioPc
    BY <1>22 DEF Drain
  <2>2. buf[t] = <<Waiting(t)>>
    BY <2>1 DEF SmallOK
  <2>3. Tail(<<Waiting(t)>>) = << >>
    OBVIOUS
  <2>4. buf'[t] = << >> /\ \A u \in Threads \ {t} : buf'[u] = buf[u]
    BY <2>1, <2>2, <2>3 DEF ShapeOK
  <2>5. CASE t = "cpu"
    BY <1>1, <1>4, <2>1, <2>4, <2>5 DEF Slim
  <2>6. CASE t = "io"
    BY <1>1, <1>3, <2>1, <2>4, <2>6 DEF Slim
  <2> QED
    BY <1>1, <2>5, <2>6
<1> HIDE DEF All
<1> QED
  BY <1>7, <1>9, <1>10, <1>11, <1>13, <1>14, <1>15, <1>16, <1>17, <1>18, <1>19, <1>20,
     <1>21, <1>22 DEF Next, CpuStep, IoStep, Handler

\* A key that is not announced is about to be, or to be read: the read drops DR before
\* it fetches the key, and the input thread sets DR after it has stored the next.
LEMMA AnnouncedStep ==
  ASSUME IInv, [Next]_vars, depth <= 1
  PROVE  AnnouncedOK'
<1> USE DEF IInv
<1>1. /\ depth' = depth /\ "cpu" \in Threads /\ "io" \in Threads /\ "cpu" # "io"
      /\ {"rbr", "dr", "ier", "iir"} = Registers
      /\ \A t \in Threads : t = "cpu" \/ t = "io"
  BY ShapeStep DEF Threads, Registers
<1> DEFINE Ann == mem'["rbr"] \notin {got', CtrlC} =>
                    \/ mem'["dr"] = TRUE
                    \/ ioPc' = "setDr"
                    \/ buf'["io"] # << >> /\ Head(buf'["io"]) = <<"dr", TRUE>>
                    \/ cpuPc' \in InRbr
<1>2. SUFFICES Ann
  BY DEF AnnouncedOK, Unread, Waiting
<1>3. mem["rbr"] \notin {got, CtrlC} =>
        \/ mem["dr"] = TRUE
        \/ ioPc = "setDr"
        \/ buf["io"] # << >> /\ Head(buf["io"]) = <<"dr", TRUE>>
        \/ cpuPc \in InRbr
  BY DEF AnnouncedOK, Unread, Waiting
\* What does not touch RBR, DR and the buffer of the input thread.
<1>4. ASSUME mem'["rbr"] = mem["rbr"], mem'["dr"] = mem["dr"], got' = got,
             buf'["io"] = buf["io"] \/ buf["io"] = << >>,
             ioPc = "setDr" => ioPc' = "setDr", cpuPc \in InRbr => cpuPc' \in InRbr
      PROVE  Ann
  BY <1>3, <1>4
<1>5. ASSUME NEW reg \in {"ier", "iir"}, NEW t \in Threads, NEW val, Store(t, reg, val)
      PROVE  /\ mem'["rbr"] = mem["rbr"] /\ mem'["dr"] = mem["dr"]
             /\ buf'["io"] = buf["io"] \/ buf["io"] = << >>
  <2>1. \/ buf' = buf /\ \A r \in Registers \ {reg} : mem'[r] = mem[r]
        \/ /\ mem' = mem /\ buf[t] = << >>
           /\ \A u \in Threads \ {t} : buf'[u] = buf[u]
    BY <1>1, <1>5, StoreIs
  <2> QED
    BY <1>1, <2>1
<1> HIDE DEF Ann
<1>6. CASE ReadRbr
  BY <1>6 DEF ReadRbr, Ann, InRbr
<1>7. CASE ReadRbrIir
  BY <1>7 DEF ReadRbrIir, Ann, InRbr
<1>8. CASE ReadRbrSignal
  BY <1>8 DEF ReadRbrSignal, Ann, InRbr
\* The key that is fetched is the one in memory.
<1>9. CASE ReadRbrReturn
  <2>1. Load("cpu", "rbr") = mem["rbr"]
    <3>1. buf["cpu"] = << >> \/ Waiting("cpu")[1] # "rbr"
      BY DEF CpuOK
    <3> QED
      BY <1>1, <3>1, LoadIs
  <2>2. got' = mem["rbr"] /\ mem' = mem
    BY <1>9, <2>1 DEF ReadRbrReturn
  <2> QED
    BY <2>2 DEF Ann
<1>10. CASE ReadIirReset \/ WriteIerTest
  <2>1. /\ \E val : Store("cpu", "iir", val)
        /\ ioPc' = ioPc /\ got' = got /\ cpuPc \notin InRbr
    BY <1>10 DEF ReadIirReset, WriteIerTest, InRbr, guestVars
  <2> QED
    BY <1>1, <1>4, <1>5, <2>1
<1>11. ASSUME NEW data, WriteIer(data) PROVE Ann
  <2>1. Store("cpu", "ier", data) /\ ioPc' = ioPc /\ got' = got /\ cpuPc \notin InRbr
    BY <1>11 DEF WriteIer, InRbr, guestVars
  <2> QED
    BY <1>1, <1>4, <1>5, <2>1
<1>12. ASSUME NEW on, WriteFcr(on) PROVE Ann
  <2>1. /\ \E val : Store("cpu", "iir", val)
        /\ ioPc' = ioPc /\ got' = got /\ cpuPc \notin InRbr
    BY <1>12 DEF WriteFcr, InRbr, guestVars
  <2> QED
    BY <1>1, <1>4, <1>5, <2>1
<1>13. CASE WriteIerSignal
  <2>1. mem' = mem /\ buf' = buf /\ ioPc' = ioPc /\ got' = got /\ cpuPc \notin InRbr
    BY <1>13 DEF WriteIerSignal, plic_signal, InRbr, guestVars
  <2> QED
    BY <1>4, <2>1
<1>14. CASE ReadIir \/ ReadLsr \/ WriteThr \/ Claim
  <2>1. mem' = mem /\ buf' = buf /\ ioPc' = ioPc /\ got' = got /\ cpuPc \notin InRbr
    BY <1>14 DEF ReadIir, ReadLsr, WriteThr, Claim, InRbr, guestVars
  <2> QED
    BY <1>4, <2>1
<1>15. ASSUME NEW on, WriteLcr(on) PROVE Ann
  <2>1. mem' = mem /\ buf' = buf /\ ioPc' = ioPc /\ got' = got /\ cpuPc' = cpuPc
    BY <1>15 DEF WriteLcr, guestVars
  <2> QED
    BY <1>4, <2>1
<1>16. CASE Getch
  BY <1>16 DEF Getch, Ann
<1>17. CASE Escape
  <2>1. Store("io", "rbr", CtrlC) /\ ioPc = "getch" /\ got' = got /\ cpuPc' = cpuPc
    BY <1>17 DEF Escape, guestVars
  <2>2. \/ mem'["rbr"] = CtrlC
        \/ mem' = mem /\ buf["io"] = << >>
    BY <1>1, <2>1, StoreIs
  <2>3. CASE mem'["rbr"] = CtrlC
    BY <2>3 DEF Ann
  <2>4. CASE mem' = mem /\ buf["io"] = << >>
    BY <1>4, <2>1, <2>4
  <2> QED
    BY <2>2, <2>3, <2>4
<1>18. CASE SetDr
  <2>1. Store("io", "dr", TRUE)
    BY <1>18 DEF SetDr
  <2>2. \/ mem'["dr"] = TRUE
        \/ buf'["io"] = << <<"dr", TRUE>> >> /\ Head(buf'["io"]) = <<"dr", TRUE>>
    BY <1>1, <2>1, StoreIs
  <2>3. << <<"dr", TRUE>> >> # << >>
    OBVIOUS
  <2> QED
    BY <2>2, <2>3 DEF Ann
<1>19. CASE SetIir
  <2>1. Store("io", "iir", "RDI") /\ ioPc = "setIir" /\ got' = got /\ cpuPc' = cpuPc
    BY <1>19 DEF SetIir, guestVars
  <2> QED
    BY <1>1, <1>4, <1>5, <2>1
<1>20. CASE TestIer \/ Signal
  <2>1. mem' = mem /\ buf' = buf /\ ioPc # "setDr" /\ got' = got /\ cpuPc' = cpuPc
    BY <1>20 DEF TestIer, Signal, plic_signal, guestVars
  <2> QED
    BY <1>4, <2>1
<1>21. CASE UNCHANGED vars
  <2>1. mem' = mem /\ buf' = buf /\ ioPc' = ioPc /\ got' = got /\ cpuPc' = cpuPc
    BY <1>21 DEF vars
  <2> QED
    BY <1>4, <2>1
\* What waits reaches the memory.
<1>22. ASSUME NEW t \in Threads, Drain(t) PROVE Ann
  <2>1. buf[t] # << >> /\ ioPc' = ioPc /\ got' = got /\ cpuPc' = cpuPc
    BY <1>22 DEF Drain, guestVars
  <2>2. Waiting(t)[1] \in Registers
    <3>1. <<"rbr", CtrlC>>[1] = "rbr" /\ <<"dr", TRUE>>[1] = "dr"
      OBVIOUS
    <3>2. CASE t = "cpu"
      BY <1>1, <2>1, <3>2 DEF CpuOK
    <3>3. CASE t = "io"
      BY <1>1, <2>1, <3>1, <3>3 DEF IoOK
    <3> QED
      BY <1>1, <3>2, <3>3
  <2>3. /\ mem'[Waiting(t)[1]] = Waiting(t)[2]
        /\ \A r \in Registers \ {Waiting(t)[1]} : mem'[r] = mem[r]
        /\ \A u \in Threads \ {t} : buf'[u] = buf[u]
    BY <1>22, <2>2, DrainIs
  <2>4. CASE t = "cpu"
    <3>1. CASE Waiting("cpu")[1] = "dr"
      BY <2>1, <2>4, <3>1 DEF CpuOK, Ann, InRbr
    <3>2. CASE Waiting("cpu")[1] \in {"ier", "iir"}
      BY <1>1, <1>4, <2>1, <2>3, <2>4, <3>2
    <3> QED
      BY <2>1, <2>4, <3>1, <3>2 DEF CpuOK
  <2>5. CASE t = "io"
    <3>1. CASE Waiting("io") = <<"rbr", CtrlC>>
      BY <2>3, <2>5, <3>1 DEF Ann
    <3>2. CASE Waiting("io")[1] = "rbr" /\ ioPc = "setDr"
      BY <2>1, <3>2 DEF Ann
    <3>3. CASE Waiting("io") = <<"dr", TRUE>>
      <4>1. <<"dr", TRUE>>[1] = "dr" /\ <<"dr", TRUE>>[2] = TRUE
        OBVIOUS
      <4>2. mem'["dr"] = TRUE
        BY <2>3, <2>5, <3>3, <4>1
      <4> QED
        BY <4>2 DEF Ann
    <3>4. CASE Waiting("io")[1] = "iir"
      <4>1. mem'["rbr"] = mem["rbr"] /\ mem'["dr"] = mem["dr"]
        BY <1>1, <2>3, <2>5, <3>4
      <4>2. Head(buf["io"]) # <<"dr", TRUE>>
        <5>1. <<"dr", TRUE>>[1] = "dr"
          OBVIOUS
        <5> QED
          BY <3>4, <5>1 DEF Waiting
      <4> QED
        BY <1>3, <2>1, <4>1, <4>2 DEF Ann
    <3> QED
      BY <2>1, <2>5, <3>1, <3>2, <3>3, <3>4 DEF IoOK
  <2> QED
    BY <1>1, <2>4, <2>5
<1> QED
  BY <1>6, <1>7, <1>8, <1>9, <1>10, <1>11, <1>12, <1>13, <1>14, <1>15, <1>16, <1>17, <1>18,
     <1>19, <1>20, <1>21, <1>22 DEF Next, CpuStep, IoStep, Handler

\* On a host that keeps the program order: the CPU thread stores IER and then tests DR,
\* the input thread stores DR and then tests IER, so one of them sees the other's store
\* and interrupts.
LEMMA ToldStep ==
  ASSUME IInv, [Next]_vars, depth = 0
  PROVE  ToldOK'
<1> USE DEF IInv
<1>1. /\ depth' = 0 /\ "cpu" \in Threads /\ "io" \in Threads
      /\ {"rbr", "dr", "ier", "iir"} = Registers
      /\ \A t \in Threads : buf[t] = << >>
  BY ShapeStep DEF Threads, Registers, SmallOK
<1>2. \A t \in Threads, reg \in Registers : Load(t, reg) = mem[reg]
  BY <1>1, LoadIs
<1>3. ASSUME NEW t \in Threads, NEW reg \in Registers, NEW val, Store(t, reg, val)
      PROVE  mem'[reg] = val /\ \A r \in Registers \ {reg} : mem'[r] = mem[r]
  BY <1>1, <1>3, StoreIs
<1> DEFINE Untold(m, i, g) == m["dr"] = TRUE /\ "RDI" \in m["ier"] /\ ~i /\ g = "run"
           Near(io, cpu, m) == \/ io \in {"testIer", "setIir", "signal"}
                               \/ cpu = "ierTest"
                               \/ cpu = "ierSignal" /\ m["iir"] # "NO_INT"
           Told == Untold(mem', irq', guest') => Near(ioPc', cpuPc', mem')
<1>4. SUFFICES Told
  BY DEF ToldOK
<1>5. Untold(mem, irq, guest) => Near(ioPc, cpuPc, mem)
  BY DEF ToldOK
<1>6. CASE ReadRbr
  BY <1>6 DEF ReadRbr, guestVars
<1>7. CASE ReadRbrIir \/ ReadIirReset
  <2>1. /\ \E val : Store("cpu", "iir", val)
        /\ cpuPc \in {"rbrIir", "iirReset"} /\ UNCHANGED <<ioPc, irq, guest>>
    BY <1>7 DEF ReadRbrIir, ReadIirReset, guestVars
  <2>2. mem'["dr"] = mem["dr"] /\ mem'["ier"] = mem["ier"]
    BY <1>1, <1>3, <2>1
  <2> QED
    BY <1>5, <2>1, <2>2
<1>8. CASE ReadRbrSignal
  <2>1. /\ irq' = TRUE \/ irq' = irq
        /\ mem' = mem /\ cpuPc = "rbrSignal" /\ UNCHANGED <<ioPc, guest>>
    BY <1>8 DEF ReadRbrSignal, plic_signal, guestVars
  <2> QED
    BY <1>5, <2>1
<1>9. CASE ReadRbrReturn
  BY <1>9 DEF ReadRbrReturn
<1>10. CASE ReadIir
  BY <1>5, <1>10 DEF ReadIir, guestVars
<1>11. CASE ReadLsr
  <2>1. guest' = "run" => mem["dr"] # TRUE
    BY <1>1, <1>2, <1>11 DEF ReadLsr
  <2>2. mem' = mem
    BY <1>11 DEF ReadLsr
  <2> QED
    BY <2>1, <2>2
<1>12. CASE WriteThr
  BY <1>5, <1>12 DEF WriteThr, guestVars
<1>13. ASSUME NEW data, WriteIer(data) PROVE Told
  <2>1. /\ Store("cpu", "ier", data) /\ cpuPc = "idle" /\ UNCHANGED <<ioPc, irq, guest>>
        /\ cpuPc' = IF data # Load("cpu", "ier") THEN "ierTest" ELSE "idle"
    BY <1>13 DEF WriteIer, guestVars
  <2>2. mem'["ier"] = data /\ mem'["dr"] = mem["dr"] /\ mem'["iir"] = mem["iir"]
    BY <1>1, <1>3, <2>1
  <2>3. Load("cpu", "ier") = mem["ier"]
    BY <1>1, <1>2
  <2> QED
    BY <1>5, <2>1, <2>2, <2>3
\* DR is tested after the enables are stored.
<1>14. CASE WriteIerTest
  <2>1. /\ Store("cpu", "iir", Identify(mem["ier"], mem["dr"])) /\ cpuPc' = "ierSignal"
        /\ UNCHANGED <<ioPc, irq, guest>>
    BY <1>1, <1>2, <1>14 DEF WriteIerTest, guestVars
  <2>2. /\ mem'["iir"] = Identify(mem["ier"], mem["dr"])
        /\ mem'["dr"] = mem["dr"] /\ mem'["ier"] = mem["ier"]
    BY <1>1, <1>3, <2>1
  <2>3. mem["dr"] = TRUE /\ "RDI" \in mem["ier"]
          => Identify(mem["ier"], mem["dr"]) \in {"RLSI", "RDI"}
    BY DEF Identify
  <2> QED
    BY <2>1, <2>2, <2>3
<1>15. CASE WriteIerSignal
  <2>1. /\ mem["iir"] # "NO_INT" => irq' = TRUE
        /\ irq' = TRUE \/ irq' = irq
        /\ mem' = mem /\ cpuPc = "ierSignal" /\ UNCHANGED <<ioPc, guest>>
    BY <1>1, <1>2, <1>15 DEF WriteIerSignal, plic_signal, guestVars
  <2> QED
    BY <1>5, <2>1
<1>16. ASSUME NEW on, WriteFcr(on) PROVE Told
  <2>1. /\ \E val : Store("cpu", "iir", val)
        /\ cpuPc = "idle" /\ UNCHANGED <<ioPc, irq, guest>>
    BY <1>16 DEF WriteFcr, guestVars
  <2>2. mem'["dr"] = mem["dr"] /\ mem'["ier"] = mem["ier"]
    BY <1>1, <1>3, <2>1
  <2> QED
    BY <1>5, <2>1, <2>2
<1>17. ASSUME NEW on, WriteLcr(on) PROVE Told
  BY <1>5, <1>17 DEF WriteLcr, guestVars
<1>18. CASE Getch \/ Escape
  <2>1. /\ \E val : Store("io", "rbr", val)
        /\ ioPc = "getch" /\ UNCHANGED <<cpuPc, irq, guest>>
    BY <1>18 DEF Getch, Escape, guestVars
  <2>2. mem'["dr"] = mem["dr"] /\ mem'["ier"] = mem["ier"] /\ mem'["iir"] = mem["iir"]
    BY <1>1, <1>3, <2>1
  <2> QED
    BY <1>5, <2>1, <2>2
\* IER is tested after DR is set.
<1>19. CASE SetDr
  BY <1>19 DEF SetDr
<1>20. CASE TestIer
  <2>1. ioPc' = (IF "RDI" \in mem["ier"] THEN "setIir" ELSE "getch") /\ mem' = mem
    BY <1>1, <1>2, <1>20 DEF TestIer
  <2> QED
    BY <2>1
<1>21. CASE SetIir
  BY <1>21 DEF SetIir
<1>22. CASE Signal
  BY <1>22 DEF Signal, plic_signal
<1>23. CASE Claim
  BY <1>23 DEF Claim
<1>24. CASE UNCHANGED vars
  BY <1>5, <1>24 DEF vars, guestVars
<1>25. ASSUME NEW t \in Threads, Drain(t) PROVE Told
  BY <1>1, <1>25 DEF Drain
<1> HIDE DEF Told
<1> QED
  BY <1>6, <1>7, <1>8, <1>9, <1>10, <1>11, <1>12, <1>13, <1>14, <1>15, <1>16, <1>17, <1>18,
     <1>19, <1>20, <1>21, <1>22, <1>23, <1>24, <1>25 DEF Next, CpuStep, IoStep, Handler

-----------------------------------------------------------------------------
(* The theorems.                                                           *)

\* The invariant.
THEOREM Invariance == Spec => []IInv
<1>1. IInv /\ [Next]_vars => IInv'
  <2> SUFFICES ASSUME IInv, [Next]_vars PROVE IInv'
    OBVIOUS
  <2>1. ShapeOK' /\ depth' = depth /\ depth \in Nat
    BY ShapeStep DEF IInv, ShapeOK
  <2>2. CASE depth <= 1
    <3>1. SmallOK' /\ CpuOK' /\ IoOK'
      BY <2>2, BufferStep
    <3>2. AnnouncedOK'
      BY <2>2, AnnouncedStep
    <3>3. ToldOK'
      BY <2>1, ToldStep DEF ToldOK
    <3> QED
      BY <2>1, <3>1, <3>2, <3>3 DEF IInv
  <2>3. CASE ~(depth <= 1)
    <3>1. SmallOK' /\ CpuOK' /\ IoOK' /\ AnnouncedOK'
      BY <2>1, <2>3 DEF SmallOK, CpuOK, IoOK, AnnouncedOK
    <3>2. ToldOK'
      BY <2>1, <2>3 DEF ToldOK
    <3> QED
      BY <2>1, <3>1, <3>2 DEF IInv
  <2> QED
    BY <2>2, <2>3
<1> QED
  BY <1>1, Start, PTL DEF Spec

\* However the two threads interleave, and whatever the driver does between its accesses,
\* a key that nobody is working on any more is announced by DR until it is read, if the
\* host delays at most one store of a thread (uart_read, _routine).
THEOREM KeysAnnounced == Spec => []NoStrandedKey
<1>1. IInv => NoStrandedKey
  <2> SUFFICES ASSUME IInv, depth <= 1, Quiet, Unread PROVE mem["dr"]
    BY DEF NoStrandedKey
  <2>1. buf["io"] = << >> /\ cpuPc = "idle" /\ ioPc # "setDr"
    BY DEF Quiet, Threads
  <2> QED
    BY <2>1 DEF IInv, AnnouncedOK, InRbr
<1> QED
  BY <1>1, Invariance, PTL

\* On a host that keeps the program order, a driver that has enabled the receiver's
\* interrupt is interrupted for every data, whichever of the enable and the data came
\* first (uart_write, _routine).
THEOREM DriverTold == Spec => []DataIsSignalled
<1>1. IInv => DataIsSignalled
  BY DEF IInv, ToldOK, DataIsSignalled, Signalled, Quiet
<1> QED
  BY <1>1, Invariance, PTL
=============================================================================
