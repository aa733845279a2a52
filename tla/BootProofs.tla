----------------------------- MODULE BootProofs -----------------------------
(***************************************************************************)
(* Proofs about ModuleSort, alone and as Boot runs it, for any files with  *)
(* any dependencies, listed in any order: modules are loaded once and      *)
(* after those they need, the load is complete and holds nothing           *)
(* superfluous, and a panic has its cause in the files.                    *)
(***************************************************************************)
EXTENDS Boot, SequenceTheorems, FiniteSetTheorems, WellFoundedInduction, TLAPS

-----------------------------------------------------------------------------
(* Sequences and what is in them.                                          *)

\* A set of numbers has a least one.
LEMMA Least ==
  ASSUME NEW S \in SUBSET Nat, S # {}
  PROVE  \E x \in S : \A y \in S : x <= y
<1>1. PICK x \in S : \A y \in S : <<y, x>> \notin OpToRel(<, Nat)
  BY NatLessThanWellFounded, WFMin, Zenon
<1>2. \A y \in S : ~(y < x)
  BY <1>1, Zenon DEF OpToRel
<1> QED
  BY <1>2

\* What is in a sequence, and in one that is made longer or shorter.
LEMMA RangeFacts ==
  ASSUME NEW T, NEW s \in Seq(T), NEW e \in T
  PROVE  /\ RangeOf(s) \subseteq T
         /\ \A x : x \in RangeOf(s) <=> \E i \in 1..Len(s) : s[i] = x
         /\ RangeOf(Append(s, e)) = RangeOf(s) \cup {e}
         /\ s # <<>> => /\ Head(s) \in RangeOf(s) /\ Head(s) \in T
                        /\ Tail(s) \in Seq(T)
                        /\ RangeOf(s) = RangeOf(Tail(s)) \cup {Head(s)}
<1>1. DOMAIN s = 1..Len(s) /\ Len(s) \in Nat
  BY LenProperties
<1>2. RangeOf(s) \subseteq T
  BY <1>1, ElementOfSeq DEF RangeOf
<1>3. \A x : x \in RangeOf(s) <=> \E i \in 1..Len(s) : s[i] = x
  BY <1>1 DEF RangeOf
<1>4. RangeOf(Append(s, e)) = RangeOf(s) \cup {e}
  <2> DEFINE t == Append(s, e)
  <2>1. /\ DOMAIN t = 1..(Len(s) + 1) /\ t[Len(s) + 1] = e
        /\ \A i \in 1..Len(s) : t[i] = s[i]
    BY <1>1, AppendProperties, LenProperties
  <2> HIDE DEF t
  <2>2. RangeOf(t) \subseteq RangeOf(s) \cup {e}
    BY <1>1, <2>1 DEF RangeOf
  <2>3. RangeOf(s) \cup {e} \subseteq RangeOf(t)
    BY <1>1, <2>1 DEF RangeOf
  <2> QED
    BY <2>2, <2>3 DEF t
<1>5. ASSUME s # <<>>
      PROVE  /\ Head(s) \in RangeOf(s) /\ Head(s) \in T
             /\ Tail(s) \in Seq(T)
             /\ RangeOf(s) = RangeOf(Tail(s)) \cup {Head(s)}
  <2> DEFINE t == Tail(s)
  <2>1. /\ t \in Seq(T) /\ Len(t) = Len(s) - 1 /\ \A i \in 1..Len(t) : t[i] = s[i + 1]
        /\ Head(s) \in T
    BY <1>5, HeadTailProperties
  <2>2. 1 \in 1..Len(s) /\ Head(s) = s[1]
    BY <1>1, <1>5, EmptySeq
  <2>3. DOMAIN t = 1..(Len(s) - 1)
    BY <2>1, LenProperties
  <2> HIDE DEF t
  <2>4. RangeOf(t) \subseteq RangeOf(s)
    BY <1>1, <2>1, <2>3 DEF RangeOf
  <2>5. ASSUME NEW i \in 1..Len(s), i # 1 PROVE s[i] \in RangeOf(t)
    <3>1. i - 1 \in 1..Len(t) /\ t[i - 1] = s[i]
      BY <1>1, <2>1, <2>5
    <3> QED
      BY <2>1, <2>3, <3>1 DEF RangeOf
  <2>6. RangeOf(s) \subseteq RangeOf(t) \cup {Head(s)}
    BY <1>3, <2>2, <2>5
  <2>7. Head(s) \in RangeOf(s)
    BY <1>1, <2>2 DEF RangeOf
  <2> QED
    BY <2>1, <2>4, <2>6, <2>7 DEF t
<1> QED
  BY <1>2, <1>3, <1>4, <1>5

-----------------------------------------------------------------------------
(* The invariant, first the tables.                                        *)

Entry  == [name : Symbols, mod : Files \cup {NULL}]
Listed == RangeOf(modules)

TypeOK ==
  /\ elf \in [exports : [Files -> Seq(Symbols)], undefs : [Files -> Seq(Symbols)]]
  /\ phase \in {"discover", "init_symtable", "analysis", "check", "sort", "done", "panic"}
  /\ modules \in Seq(Files) /\ pos \in Nat \ {0}
  /\ symbols \in Seq(Entry)
  /\ undef_syms \in [Files -> Seq(Symbols)]
  /\ dependencies \in [Files -> Seq(Files)]
  /\ status \in [Files -> {"NONE", "DOING", "DONE"}]
  /\ stack \in Seq(Files) /\ loaded \in Seq(Files)

\* Before the traversal nothing is visited, and before the check nothing depends.
EarlyOK ==
  /\ phase \in {"discover", "init_symtable", "analysis", "check"} =>
       stack = <<>> /\ loaded = <<>> /\ \A f \in Files : status[f] = "NONE"
  /\ phase \in {"discover", "init_symtable", "analysis"} =>
       \A f \in Files : dependencies[f] = <<>>
  /\ phase = "discover" => modules = <<>>
  /\ phase \in {"discover", "init_symtable"} => pos = 1 /\ symbols = <<>>

\* Every module is listed once.
ListedOnce == \A i, j \in 1..Len(modules) : modules[i] = modules[j] => i = j

\* How many of the modules have been analysed.
Analysed == IF phase = "analysis" THEN pos - 1 ELSE Len(modules)

\* The table has exactly the symbols of the kernel and of these modules, and in
\* that order.
Kernel(k)     == symbols[k].mod = NULL /\ symbols[k].name \in RangeOf(KernelSymbols)
ExportOf(k, i) == /\ symbols[k].mod = modules[i]
                  /\ symbols[k].name \in RangeOf(elf.exports[modules[i]])

NoStranger(n) == \A k \in 1..Len(symbols) : Kernel(k) \/ \E i \in 1..n : ExportOf(k, i)

KernelThere == \A s \in RangeOf(KernelSymbols) :
                 \E k \in 1..Len(symbols) : symbols[k].name = s /\ symbols[k].mod = NULL

ExportsThere(n) ==
  \A i \in 1..n : \A s \in RangeOf(elf.exports[modules[i]]) :
    \E k \in 1..Len(symbols) : symbols[k].name = s /\ symbols[k].mod = modules[i]

InOrder(n) ==
  \A j, k \in 1..Len(symbols) :
    j < k => /\ symbols[k].mod = NULL => symbols[j].mod = NULL
             /\ \A a, b \in 1..n :
                  symbols[j].mod = modules[a] /\ symbols[k].mod = modules[b] => a <= b

Table(n) == NoStranger(n) /\ KernelThere /\ ExportsThere(n) /\ InOrder(n)

TableOK == phase \in {"analysis", "check", "sort", "done"} =>
             Analysed \in 0..Len(modules) /\ Table(Analysed)

\* A module depends on nothing but the first exporters of symbols it misses.
DepsOK == \A f \in Files : RangeOf(dependencies[f]) \subseteq Providers(f)

\* Each missing symbol of m is still to be looked at (in check), in the kernel, or
\* in a module that m depends on or has depended on.
Covered(m, todo) ==
  \A s \in RangeOf(elf.undefs[m]) :
    \/ s \in todo
    \/ s \in RangeOf(KernelSymbols)
    \/ \E d \in Files : /\ s \in RangeOf(elf.exports[d])
                        /\ d \in RangeOf(dependencies[m]) \/ status[d] = "DONE"

CoverOK ==
  /\ phase = "analysis" =>
       \A i \in 1..(pos - 1) : undef_syms[modules[i]] = elf.undefs[modules[i]]
  /\ phase = "check" =>
       \A i \in 1..Len(modules) :
         /\ i < pos => undef_syms[modules[i]] = <<>>
         /\ RangeOf(undef_syms[modules[i]]) \subseteq RangeOf(elf.undefs[modules[i]])
         /\ Covered(modules[i], RangeOf(undef_syms[modules[i]]))
  /\ phase \in {"sort", "done"} => \A i \in 1..Len(modules) : Covered(modules[i], {})

-----------------------------------------------------------------------------
(* Second, the traversal.                                                  *)

\* DONE is what has been handed over.
DoneOK == /\ LoadedOnce
          /\ \A f \in Files : status[f] = "DONE" <=> f \in RangeOf(loaded)

\* Each activation waits for the first dependency of its module, the one above it;
\* the outermost is the outer loop's.
StackOK ==
  /\ \A k \in 1..Len(stack) : status[stack[k]] = "DOING" /\ stack[k] \in Listed
  /\ \A j, k \in 1..Len(stack) : stack[j] = stack[k] => j = k
  /\ \A k \in 1..(Len(stack) - 1) : /\ dependencies[stack[k + 1]] # <<>>
                                    /\ Head(dependencies[stack[k + 1]]) = stack[k]
  /\ stack # <<>> => /\ phase = "sort" /\ pos <= Len(modules)
                     /\ stack[Len(stack)] = modules[pos] /\ Wanted(modules[pos])

\* An activation that found a cycle has left its module DOING.
Doomed == {f \in Files : status[f] = "DOING" /\ f \notin RangeOf(stack)}

\* Then all that is left to do is to return and panic.
DoomOK ==
  /\ \A f \in Doomed : /\ f \in Listed /\ dependencies[f] # <<>>
                       /\ status[Head(dependencies[f])] = "DOING"
  /\ Doomed # {} =>
       \/ phase = "panic"
       \/ /\ phase = "sort" /\ stack = <<>> /\ pos <= Len(modules)
          /\ Wanted(modules[pos]) /\ status[modules[pos]] = "DOING"
       \/ /\ phase = "sort" /\ stack # <<>> /\ dependencies[Head(stack)] # <<>>
          /\ status[Head(dependencies[Head(stack)])] = "DOING"

\* The outer loop has loaded what it has passed;
VisitedOK ==
  /\ phase = "sort" =>
       \A i \in 1..Len(modules) :
         i < pos /\ Wanted(modules[i]) => status[modules[i]] = "DONE"
  /\ phase = "done" =>
       \A i \in 1..Len(modules) : Wanted(modules[i]) => status[modules[i]] = "DONE"

\* and what is loaded is wanted, or needed by a module loaded later or under way.
NeededOK ==
  phase \in {"sort", "done"} =>
    \/ Doomed # {}
    \/ \A i \in 1..Len(loaded) :
         \/ Wanted(loaded[i])
         \/ \E j \in (i + 1)..Len(loaded) : loaded[i] \in Providers(loaded[j])
         \/ \E k \in 1..Len(stack) : loaded[i] \in Providers(stack[k])

IInv == /\ TypeOK /\ EarlyOK /\ ListedOnce /\ TableOK /\ DepsOK /\ CoverOK
        /\ DoneOK /\ StackOK /\ DoomOK /\ VisitedOK /\ NeededOK
        /\ LoadedAfterProviders /\ PanicHasCause

-----------------------------------------------------------------------------
(* Types.                                                                  *)

\* A sequence that is pushed on, popped from, or appended to.
LEMMA Pushed ==
  ASSUME NEW T, NEW s \in Seq(T), NEW e \in T
  PROVE  LET t == <<e>> \o s
         IN  /\ t \in Seq(T) /\ t # <<>> /\ Len(t) = Len(s) + 1 /\ t[1] = e /\ Head(t) = e
             /\ \A k \in 1..Len(s) : t[k + 1] = s[k]
             /\ RangeOf(t) = RangeOf(s) \cup {e}
<1> DEFINE t == <<e>> \o s
<1>1. /\ <<e>> \in Seq(T) /\ Len(<<e>>) = 1 /\ <<e>>[1] = e
      /\ Len(s) \in Nat /\ DOMAIN s = 1..Len(s)
  BY LenProperties
<1>2. /\ t \in Seq(T) /\ Len(t) = Len(s) + 1
      /\ \A k \in 1..Len(t) : t[k] = IF k <= 1 THEN <<e>>[k] ELSE s[k - 1]
  BY <1>1, ConcatProperties
<1>3. DOMAIN t = 1..(Len(s) + 1)
  BY <1>2, LenProperties
<1> HIDE DEF t
<1>4. t[1] = e /\ \A k \in 1..Len(s) : t[k + 1] = s[k]
  BY <1>1, <1>2
<1>5. t # <<>>
  BY <1>1, <1>2, EmptySeq
<1>6. Head(t) = e
  BY <1>2, <1>4, <1>5, HeadTailProperties
<1>7. RangeOf(t) \subseteq RangeOf(s) \cup {e}
  <2>1. ASSUME NEW k \in DOMAIN t, k # 1 PROVE t[k] \in RangeOf(s)
    <3>1. k - 1 \in 1..Len(s) /\ t[k] = s[k - 1]
      BY <1>1, <1>3, <1>4, <2>1
    <3> QED
      BY <1>1, <3>1 DEF RangeOf
  <2> QED
    BY <2>1, <1>4 DEF RangeOf
<1>8. RangeOf(s) \cup {e} \subseteq RangeOf(t)
  <2>1. \A k \in 1..Len(s) : k + 1 \in DOMAIN t /\ s[k] = t[k + 1]
    BY <1>1, <1>3, <1>4
  <2>2. 1 \in DOMAIN t
    BY <1>1, <1>3
  <2> QED
    BY <1>1, <1>4, <2>1, <2>2 DEF RangeOf
<1> QED
  BY <1>2, <1>4, <1>5, <1>6, <1>7, <1>8 DEF t

\* The rest of a sequence.
LEMMA Popped ==
  ASSUME NEW T, NEW s \in Seq(T), s # <<>>
  PROVE  /\ Tail(s) \in Seq(T) /\ Len(Tail(s)) = Len(s) - 1 /\ Len(s) \in Nat \ {0}
         /\ Head(s) = s[1] /\ Head(s) \in T
         /\ \A k \in 1..Len(Tail(s)) : Tail(s)[k] = s[k + 1]
         /\ RangeOf(s) = RangeOf(Tail(s)) \cup {s[1]}
         /\ Tail(s) # <<>> <=> Len(s) # 1
<1>1. /\ Tail(s) \in Seq(T) /\ Len(Tail(s)) = Len(s) - 1 /\ Len(s) \in Nat \ {0}
      /\ Head(s) = s[1] /\ Head(s) \in T
      /\ \A k \in 1..Len(Tail(s)) : Tail(s)[k] = s[k + 1]
  BY HeadTailProperties, EmptySeq, LenProperties
<1>2. RangeOf(s) = RangeOf(Tail(s)) \cup {s[1]}
  BY <1>1, RangeFacts
<1>3. Tail(s) # <<>> <=> Len(s) # 1
  <2> DEFINE t == Tail(s)
  <2>1. t \in Seq(T) /\ Len(t) = Len(s) - 1 /\ Len(s) \in Nat
    BY <1>1
  <2> HIDE DEF t
  <2>2. t = <<>> <=> Len(t) = 0
    BY <2>1, EmptySeq
  <2> QED
    BY <2>1, <2>2 DEF t
<1> QED
  BY <1>1, <1>2, <1>3

\* A sequence with one element more.
LEMMA Appended ==
  ASSUME NEW T, NEW s \in Seq(T), NEW e \in T
  PROVE  /\ Append(s, e) \in Seq(T) /\ Len(Append(s, e)) = Len(s) + 1 /\ Len(s) \in Nat
         /\ \A k \in 1..Len(s) : Append(s, e)[k] = s[k]
         /\ Append(s, e)[Len(s) + 1] = e
         /\ RangeOf(Append(s, e)) = RangeOf(s) \cup {e}
<1>1. RangeOf(Append(s, e)) = RangeOf(s) \cup {e}
  BY RangeFacts
<1> QED
  BY <1>1, AppendProperties, LenProperties

\* export_symbols appends one entry per name.
LEMMA ExportIs ==
  ASSUME TypeOK, NEW names \in Seq(Symbols), NEW mod \in Files \cup {NULL}
  PROVE  LET t == export_symbols(names, mod)
         IN  /\ t \in Seq(Entry) /\ Len(t) = Len(symbols) + Len(names)
             /\ Len(symbols) \in Nat /\ Len(names) \in Nat
             /\ \A k \in 1..Len(symbols) : t[k] = symbols[k]
             /\ \A k \in 1..Len(names) :
                  /\ t[Len(symbols) + k].name = names[k]
                  /\ t[Len(symbols) + k].mod = mod
<1> DEFINE u == [i \in DOMAIN names |-> [name |-> names[i], mod |-> mod]]
           t == export_symbols(names, mod)
<1>1. DOMAIN names = 1..Len(names) /\ Len(names) \in Nat
  BY LenProperties
<1>2. symbols \in Seq(Entry) /\ Len(symbols) \in Nat
  BY LenProperties DEF TypeOK
<1>3. u \in [1..Len(names) -> Entry]
  BY <1>1, ElementOfSeq DEF Entry
<1>4. u \in Seq(Entry) /\ Len(u) = Len(names)
  BY <1>1, <1>3, SeqDef, LenProperties
<1>5. /\ t \in Seq(Entry) /\ Len(t) = Len(symbols) + Len(u)
      /\ \A k \in 1..Len(t) : t[k] = IF k <= Len(symbols) THEN symbols[k]
                                      ELSE u[k - Len(symbols)]
  BY <1>2, <1>4, ConcatProperties DEF export_symbols
<1>6. \A k \in 1..Len(names) : u[k].name = names[k] /\ u[k].mod = mod
  BY <1>1
<1> HIDE DEF u, t
<1>7. \A k \in 1..Len(names) : t[Len(symbols) + k] = u[k]
  BY <1>1, <1>2, <1>4, <1>5
<1>8. \A k \in 1..Len(symbols) : t[k] = symbols[k]
  BY <1>2, <1>4, <1>1, <1>5
<1>9. \A k \in 1..Len(names) : /\ t[Len(symbols) + k].name = names[k]
                                /\ t[Len(symbols) + k].mod = mod
  BY <1>6, <1>7
<1>10. Len(t) = Len(symbols) + Len(names)
  BY <1>4, <1>5
<1> QED
  BY <1>1, <1>2, <1>5, <1>8, <1>9, <1>10, Zenon DEF t

\* The discovery lists each candidate once.
LEMMA Discovered ==
  ASSUME TypeOK, Discover
  PROVE  modules' \in Seq(Files) /\ ListedOnce'
<1> DEFINE C == {f \in Files : check_module(f)}
           n == Cardinality(C)
<1>1. n \in Nat
  BY ModuleSortAssumption, FS_Subset, FS_CardinalityType
<1>2. modules' \in Listings(C)
  BY DEF Discover
<1>3. /\ modules' \in [1..n -> C]
      /\ \A i, j \in DOMAIN modules' : modules'[i] = modules'[j] => i = j
  BY <1>2 DEF Listings
<1> HIDE DEF n
<1>4. modules' \in [1..n -> Files] /\ DOMAIN modules' = 1..n
  BY <1>3
<1>5. modules' \in Seq(Files)
  BY <1>1, <1>4, SeqDef
<1>6. DOMAIN modules' = 1..Len(modules')
  BY <1>5, LenProperties
<1> QED
  BY <1>3, <1>5, <1>6 DEF ListedOnce

\* match_undef is the first listed exporter of the symbol, or the kernel.
LEMMA Matched ==
  ASSUME TypeOK, ListedOnce, Table(Len(modules)), NEW s \in Symbols, Entries(s) # {}
  PROVE  /\ match_undef(s) \in Files \cup {NULL}
         /\ match_undef(s) = NULL => s \in RangeOf(KernelSymbols)
         /\ match_undef(s) # NULL =>
              /\ s \notin RangeOf(KernelSymbols) /\ s \in RangeOf(elf.exports[match_undef(s)])
              /\ \E i \in 1..Len(modules) :
                   /\ match_undef(s) = modules[i] /\ i \in Exporters(s)
                   /\ \A j \in Exporters(s) : i <= j
<1> DEFINE k == CHOOSE k \in Entries(s) : \A j \in Entries(s) : k <= j
           m == match_undef(s)
<1>1. /\ DOMAIN symbols = 1..Len(symbols) /\ Len(symbols) \in Nat
      /\ DOMAIN modules = 1..Len(modules) /\ Len(modules) \in Nat
  BY LenProperties DEF TypeOK
<1>2. Entries(s) \in SUBSET Nat
  BY <1>1 DEF Entries
<1>3. \E x \in Entries(s) : \A j \in Entries(s) : x <= j
  BY <1>2, Least
<1>4. k \in Entries(s) /\ \A j \in Entries(s) : k <= j
  BY <1>3, Zenon
<1>5. m = symbols[k].mod
  BY DEF match_undef
<1> HIDE DEF k, m
<1>6. k \in 1..Len(symbols) /\ symbols[k].name = s
  BY <1>1, <1>4 DEF Entries
<1>7. symbols[k] \in Entry /\ m \in Files \cup {NULL}
  <2>1. symbols \in Seq(Entry)
    BY DEF TypeOK
  <2>2. symbols[k] \in Entry
    BY <1>6, <2>1, ElementOfSeq
  <2> QED
    BY <1>5, <2>2 DEF Entry
<1>8. \A i \in 1..Len(modules) : modules[i] \in Files /\ modules[i] # NULL
  BY ElementOfSeq, ModuleSortAssumption DEF TypeOK
<1>9. Kernel(k) \/ \E i \in 1..Len(modules) : ExportOf(k, i)
  BY <1>6 DEF Table, NoStranger
<1>10. ASSUME m = NULL PROVE s \in RangeOf(KernelSymbols)
  BY <1>5, <1>6, <1>8, <1>9, <1>10 DEF Kernel, ExportOf
<1>11. ASSUME m # NULL
       PROVE  /\ s \notin RangeOf(KernelSymbols) /\ s \in RangeOf(elf.exports[m])
              /\ \E i \in 1..Len(modules) : /\ m = modules[i] /\ i \in Exporters(s)
                                            /\ \A j \in Exporters(s) : i <= j
  <2>1. PICK i \in 1..Len(modules) : ExportOf(k, i)
    BY <1>5, <1>9, <1>11 DEF Kernel
  <2>2. m = modules[i] /\ s \in RangeOf(elf.exports[m]) /\ i \in Exporters(s)
    BY <1>1, <1>5, <1>6, <2>1 DEF ExportOf, Exporters
  <2>3. ASSUME s \in RangeOf(KernelSymbols) PROVE FALSE
    <3>1. PICK j \in 1..Len(symbols) : symbols[j].name = s /\ symbols[j].mod = NULL
      BY <2>3 DEF Table, KernelThere
    <3>2. j \in Entries(s) /\ k <= j
      BY <1>1, <1>4, <3>1 DEF Entries
    <3>3. k # j
      BY <1>5, <1>11, <3>1
    <3>4. k < j
      BY <1>6, <3>2, <3>3
    <3> QED
      BY <1>5, <1>6, <1>11, <3>1, <3>4 DEF Table, InOrder
  <2>4. ASSUME NEW j \in Exporters(s) PROVE i <= j
    <3>1. j \in 1..Len(modules) /\ s \in RangeOf(elf.exports[modules[j]])
      BY <1>1 DEF Exporters
    <3>2. PICK l \in 1..Len(symbols) : symbols[l].name = s /\ symbols[l].mod = modules[j]
      BY <3>1 DEF Table, ExportsThere
    <3>3. l \in Entries(s) /\ k <= l
      BY <1>1, <1>4, <3>2 DEF Entries
    <3>4. CASE k = l
      <4>1. modules[i] = modules[j]
        BY <1>5, <2>2, <3>2, <3>4
      <4>2. i = j
        BY <3>1, <4>1 DEF ListedOnce
      <4> QED
        BY <1>1, <3>1, <4>2
    <3>5. CASE k # l
      <4>1. k < l
        BY <1>6, <3>3, <3>5
      <4> QED
        BY <1>5, <1>6, <2>2, <3>1, <3>2, <4>1 DEF Table, InOrder
    <3> QED
      BY <3>4, <3>5
  <2> QED
    BY <2>2, <2>3, <2>4
<1> QED
  BY <1>7, <1>10, <1>11 DEF m

\* A symbol without an entry is exported by nobody.
LEMMA Unmatched ==
  ASSUME TypeOK, Table(Len(modules)), NEW s \in Symbols, Entries(s) = {}
  PROVE  s \notin RangeOf(KernelSymbols) /\ Exporters(s) = {}
<1>1. /\ DOMAIN symbols = 1..Len(symbols) /\ DOMAIN modules = 1..Len(modules)
  BY LenProperties DEF TypeOK
<1>2. \A k \in 1..Len(symbols) : symbols[k].name # s
  BY <1>1 DEF Entries
<1> QED
  BY <1>1, <1>2 DEF Table, KernelThere, ExportsThere, Exporters

\* The types of what the actions assign.
LEMMA TypesKept ==
  ASSUME TypeOK, ListedOnce, TableOK, Next
  PROVE  TypeOK'
<1> USE DEF files
<1>1. KernelSymbols \in Seq(Symbols)
  BY ModuleSortAssumption
<1>2. CASE Discover
  BY <1>2, Discovered DEF Discover, TypeOK
<1>3. CASE init_symtable
  <2>1. symbols' \in Seq(Entry)
    BY <1>1, <1>3, ExportIs DEF init_symtable
  <2> QED
    BY <1>3, <2>1 DEF init_symtable, TypeOK
<1>4. ASSUME NEW this, NEW next \in {"check", "sort", "done"}, LoopEnd(this, next)
      PROVE  TypeOK'
  BY <1>4 DEF LoopEnd, TypeOK
<1>5. ASSUME phase \in {"analysis", "check", "sort"}, pos <= Len(modules)
      PROVE  modules[pos] \in Files
  <2>1. pos \in 1..Len(modules)
    BY <1>5, LenProperties DEF TypeOK
  <2> QED
    BY <2>1, ElementOfSeq DEF TypeOK
<1>6. CASE analysis_module
  <2> DEFINE mod == modules[pos]
  <2>1. mod \in Files
    BY <1>5, <1>6 DEF analysis_module
  <2> HIDE DEF mod
  <2>2. elf.undefs[mod] \in Seq(Symbols) /\ elf.exports[mod] \in Seq(Symbols)
    BY <2>1 DEF TypeOK
  <2>3. symbols' = export_symbols(elf.exports[mod], mod)
    BY <1>6 DEF analysis_module, mod
  <2>4. symbols' \in Seq(Entry)
    BY <2>1, <2>2, <2>3, ExportIs
  <2>5. undef_syms' = [undef_syms EXCEPT ![mod] = elf.undefs[mod]]
    BY <1>6 DEF analysis_module, mod
  <2>6. undef_syms' \in [Files -> Seq(Symbols)]
    BY <2>1, <2>2, <2>5 DEF TypeOK
  <2>7. pos' \in Nat \ {0}
    BY <1>6 DEF analysis_module, TypeOK
  <2> QED
    BY <1>6, <2>4, <2>6, <2>7 DEF analysis_module, TypeOK
<1>7. CASE check_dependency
  <2> DEFINE mod == modules[pos]
             und == undef_syms[mod]
             target == match_undef(Head(und))
  <2>1. mod \in Files /\ und \in Seq(Symbols)
    BY <1>5, <1>7 DEF check_dependency, TypeOK
  <2>2. /\ UNCHANGED <<files, modules, symbols, status, stack, loaded>>
        /\ \/ pos' = pos + 1 /\ UNCHANGED <<phase, undef_syms, dependencies>>
           \/ phase' = "panic" /\ UNCHANGED <<pos, undef_syms, dependencies>>
           \/ /\ und # <<>> /\ Entries(Head(und)) # {}
              /\ undef_syms' = [undef_syms EXCEPT ![mod] = Tail(und)]
              /\ dependencies' = IF target = NULL \/ find_dependency(mod, target)
                                   THEN dependencies
                                   ELSE [dependencies EXCEPT ![mod] = Append(@, target)]
              /\ UNCHANGED <<phase, pos>>
    BY <1>7 DEF check_dependency
  <2>3. phase = "check"
    BY <1>7 DEF check_dependency
  <2>4. Table(Len(modules))
    BY <2>3 DEF TableOK, Analysed
  <2>5. ASSUME und # <<>> PROVE Head(und) \in Symbols /\ Tail(und) \in Seq(Symbols)
    BY <2>1, <2>5, Popped
  <2>6. ASSUME und # <<>>, Entries(Head(und)) # {} PROVE target \in Files \cup {NULL}
    BY <2>4, <2>5, <2>6, Matched
  <2> HIDE DEF mod, und, target
  <2>7. ASSUME target \in Files
        PROVE  [dependencies EXCEPT ![mod] = Append(@, target)] \in [Files -> Seq(Files)]
    <3>1. dependencies[mod] \in Seq(Files)
      BY <2>1 DEF TypeOK
    <3>2. Append(dependencies[mod], target) \in Seq(Files)
      BY <2>7, <3>1, AppendProperties
    <3> QED
      BY <2>1, <3>2 DEF TypeOK
  <2>8. dependencies' \in [Files -> Seq(Files)] /\ undef_syms' \in [Files -> Seq(Symbols)]
    BY <2>1, <2>2, <2>5, <2>6, <2>7 DEF TypeOK
  <2>9. pos' \in Nat \ {0} /\ phase' \in {"check", "panic"}
    BY <2>2, <2>3 DEF TypeOK
  <2> QED
    BY <2>2, <2>8, <2>9 DEF TypeOK
<1>8. ASSUME NEW mod \in Files, Enter(mod)
      PROVE  status' \in [Files -> {"NONE", "DOING", "DONE"}] /\ stack' \in Seq(Files)
  BY <1>8, Pushed DEF Enter, TypeOK
<1>9. CASE SortNext
  <2>1. \/ pos' = pos + 1 /\ UNCHANGED <<phase, status, stack>>
        \/ Enter(modules[pos]) /\ UNCHANGED <<phase, pos>>
        \/ phase' = "panic" /\ UNCHANGED <<pos, status, stack>>
    BY <1>9 DEF SortNext
  <2>2. modules[pos] \in Files
    BY <1>5, <1>9 DEF SortNext
  <2>3. status' \in [Files -> {"NONE", "DOING", "DONE"}] /\ stack' \in Seq(Files)
    BY <1>8, <2>1, <2>2 DEF TypeOK
  <2>4. pos' \in Nat \ {0} /\ phase' \in {"sort", "panic"}
    <3>1. phase = "sort" /\ pos \in Nat \ {0}
      BY <1>9 DEF SortNext, TypeOK
    <3> QED
      BY <2>1, <3>1
  <2> QED
    BY <1>9, <2>3, <2>4 DEF SortNext, TypeOK
<1>10. ASSUME NEW mod \in Files, Traversing(mod)
       PROVE  /\ Tail(stack) \in Seq(Files) /\ dependencies[mod] \in Seq(Files)
              /\ dependencies[mod] # <<>> =>
                   Head(dependencies[mod]) \in Files /\ Tail(dependencies[mod]) \in Seq(Files)
  <2>1. dependencies[mod] \in Seq(Files) /\ stack \in Seq(Files) /\ stack # <<>>
    BY <1>10 DEF TypeOK, Traversing
  <2> QED
    BY <2>1, Popped
<1>11. CASE Call
  BY <1>8, <1>10, <1>11 DEF Call, TypeOK
<1>12. CASE DropDependency
  <2>1. PICK mod \in Files :
          /\ Traversing(mod) /\ dependencies[mod] # << >>
          /\ dependencies' = [dependencies EXCEPT ![mod] = Tail(@)]
          /\ UNCHANGED <<files, phase, modules, pos, symbols, undef_syms, status, stack,
                         loaded>>
    BY <1>12 DEF DropDependency
  <2>2. dependencies' \in [Files -> Seq(Files)]
    BY <1>10, <2>1 DEF TypeOK
  <2> QED
    BY <2>1, <2>2 DEF TypeOK
<1>13. CASE CyclicChain
  BY <1>10, <1>13 DEF CyclicChain, TypeOK
<1>14. CASE Finish
  <2>1. PICK mod \in Files :
          /\ Traversing(mod) /\ dependencies[mod] = << >>
          /\ status' = [status EXCEPT ![mod] = "DONE"]
          /\ loaded' = Append(loaded, mod)
          /\ stack' = Tail(stack)
          /\ UNCHANGED <<files, phase, modules, pos, symbols, undef_syms, dependencies>>
    BY <1>14 DEF Finish
  <2>2. loaded' \in Seq(Files)
    BY <2>1, AppendProperties DEF TypeOK
  <2>3. status' \in [Files -> {"NONE", "DOING", "DONE"}]
    BY <2>1 DEF TypeOK
  <2> QED
    BY <1>10, <2>1, <2>2, <2>3 DEF TypeOK
<1> QED
  BY <1>2, <1>3, <1>4, <1>6, <1>7, <1>9, <1>11, <1>12, <1>13, <1>14 DEF Next

-----------------------------------------------------------------------------
(* The tables.                                                             *)

\* The loops, and the actions of the traversal.
Traversal == SortNext \/ Call \/ DropDependency \/ CyclicChain \/ Finish

\* What the actions leave alone.
LEMMA Frames ==
  ASSUME Next
  PROVE  /\ UNCHANGED <<elf, startpoint>>
         /\ Discover \/ UNCHANGED modules
         /\ init_symtable \/ analysis_module \/ UNCHANGED symbols
         /\ Traversal \/ UNCHANGED <<status, stack, loaded>>
         /\ Traversal => phase = "sort" /\ phase' \in {"sort", "panic"} /\ UNCHANGED undef_syms
         /\ Traversal \/ check_dependency \/ UNCHANGED dependencies
  BY DEF Next, Traversal, Discover, init_symtable, analysis_module, LoopEnd,
         check_dependency, SortNext, Call, DropDependency, CyclicChain, Finish, Traversing,
         Enter, files

\* Nothing depends on anything before the check, and nothing is visited before the
\* traversal; the list of modules is made once.
LEMMA EarlyKept ==
  ASSUME TypeOK, EarlyOK, ListedOnce, Next
  PROVE  EarlyOK' /\ ListedOnce'
<1>1. ListedOnce'
  <2>1. CASE Discover
    BY <2>1, Discovered
  <2>2. CASE UNCHANGED modules
    BY <2>2 DEF ListedOnce
  <2> QED
    BY <2>1, <2>2, Frames
<1>2. EarlyOK'
  <2>1. CASE Discover
    BY <2>1 DEF Discover, EarlyOK, files
  <2>2. CASE init_symtable
    BY <2>2 DEF init_symtable, EarlyOK, files
  <2>3. CASE analysis_module
    BY <2>3 DEF analysis_module, EarlyOK, files
  <2>4. ASSUME NEW this, NEW next \in {"check", "sort", "done"}, LoopEnd(this, next),
               next = "check" => this = "analysis"
        PROVE  EarlyOK'
    BY <2>4 DEF LoopEnd, EarlyOK, files
  <2>5. CASE check_dependency
    <3>1. phase = "check" /\ phase' \in {"check", "panic"} /\ UNCHANGED <<status, stack, loaded>>
      BY <2>5 DEF check_dependency, files
    <3> QED
      BY <3>1 DEF EarlyOK
  <2>6. CASE Traversal
    BY <2>6, Frames DEF EarlyOK
  <2> QED
    BY <2>1, <2>2, <2>3, <2>4, <2>5, <2>6 DEF Next, Traversal
<1> QED
  BY <1>1, <1>2

\* The symbols of the n-th module are added to the table.
LEMMA TableGrows ==
  ASSUME TypeOK, ListedOnce, NEW n \in 1..Len(modules), Table(n - 1),
         symbols' = export_symbols(elf.exports[modules[n]], modules[n]),
         UNCHANGED <<elf, modules>>
  PROVE  Table(n)'
<1> DEFINE m     == modules[n]
           names == elf.exports[m]
           L     == Len(symbols)
           N     == Len(names)
<1>1. Len(modules) \in Nat /\ \A i \in 1..Len(modules) : modules[i] \in Files /\ modules[i] # NULL
  <2>1. modules \in Seq(Files)
    BY DEF TypeOK
  <2>2. Len(modules) \in Nat /\ \A i \in 1..Len(modules) : modules[i] \in Files
    BY <2>1, ElementOfSeq, LenProperties
  <2> QED
    BY <2>2, ModuleSortAssumption
<1>2. m \in Files /\ names \in Seq(Symbols)
  BY <1>1 DEF TypeOK
<1>3. symbols' = export_symbols(names, m)
  OBVIOUS
<1>4. DOMAIN names = 1..N /\ N \in Nat
  BY <1>2, LenProperties
<1> HIDE DEF m, names
<1>5. /\ L \in Nat /\ Len(symbols') = L + N
      /\ \A k \in 1..L : symbols'[k] = symbols[k]
      /\ \A k \in 1..N : symbols'[L + k].name = names[k] /\ symbols'[L + k].mod = m
  <2> DEFINE t == export_symbols(names, m)
  <2>1. /\ Len(t) = Len(symbols) + Len(names) /\ Len(symbols) \in Nat
        /\ \A k \in 1..Len(symbols) : t[k] = symbols[k]
        /\ \A k \in 1..Len(names) : /\ t[Len(symbols) + k].name = names[k]
                                     /\ t[Len(symbols) + k].mod = m
    <3>1. m \in Files \cup {NULL}
      BY <1>2
    <3> QED
      BY <1>2, <3>1, ExportIs, Zenon
  <2>2. symbols' = t
    BY <1>3
  <2> HIDE DEF t
  <2> QED
    BY <2>1, <2>2
<1> HIDE DEF L, N
<1>6. \A k \in 1..(L + N) : k \in 1..L \/ (k > L /\ \E i \in 1..N : k = L + i)
  <2>1. ASSUME NEW k \in 1..(L + N), k \notin 1..L PROVE k > L /\ \E i \in 1..N : k = L + i
    <3>1. k - L \in 1..N /\ k = L + (k - L) /\ k > L
      BY <1>4, <1>5, <2>1
    <3> QED
      BY <3>1
  <2> QED
    BY <2>1
<1>7. \A k \in 1..(L + N) : k \notin 1..L =>
         symbols'[k].mod = m /\ symbols'[k].name \in RangeOf(names)
  <2> SUFFICES ASSUME NEW k \in 1..(L + N), k \notin 1..L
               PROVE  symbols'[k].mod = m /\ symbols'[k].name \in RangeOf(names)
    OBVIOUS
  <2>1. PICK i \in 1..N : k = L + i
    BY <1>6
  <2>2. names[i] \in RangeOf(names)
    BY <1>4 DEF RangeOf
  <2> QED
    BY <1>5, <2>1, <2>2
<1>8. m = modules[n] /\ names = elf.exports[modules[n]] /\ L = Len(symbols)
  BY DEF m, names, L
<1>9. \A k \in 1..L : Kernel(k) \/ \E i \in 1..(n - 1) : ExportOf(k, i)
  BY <1>8 DEF Table, NoStranger
<1>10. NoStranger(n)'
  <2> SUFFICES ASSUME NEW k \in 1..(L + N)
               PROVE  Kernel(k)' \/ \E i \in 1..n : ExportOf(k, i)'
    BY <1>5 DEF NoStranger
  <2>1. CASE k \in 1..L
    <3>1. Kernel(k) => Kernel(k)'
      BY <1>5, <2>1 DEF Kernel
    <3>2. \A i : ExportOf(k, i) => ExportOf(k, i)'
      BY <1>5, <2>1 DEF ExportOf
    <3>3. \A i \in 1..(n - 1) : i \in 1..n
      BY <1>1
    <3> QED
      BY <1>9, <2>1, <3>1, <3>2, <3>3
  <2>2. CASE k \notin 1..L
    <3>1. ExportOf(k, n)'
      BY <1>7, <1>8, <2>2 DEF ExportOf
    <3>2. n \in 1..n
      BY <1>1
    <3> QED
      BY <3>1, <3>2
  <2> QED
    BY <2>1, <2>2
<1>11. KernelThere'
  <2>1. \A s \in RangeOf(KernelSymbols) :
          \E k \in 1..L : symbols[k].name = s /\ symbols[k].mod = NULL
    BY <1>8 DEF Table, KernelThere
  <2>2. \A k \in 1..L : k \in 1..(L + N) /\ symbols'[k] = symbols[k]
    BY <1>4, <1>5
  <2> QED
    BY <1>5, <2>1, <2>2 DEF KernelThere
<1>12. ExportsThere(n)'
  <2> SUFFICES ASSUME NEW i \in 1..n, NEW s \in RangeOf(elf.exports[modules[i]])
               PROVE  \E k \in 1..(L + N) : symbols'[k].name = s /\ symbols'[k].mod = modules[i]
    BY <1>5 DEF ExportsThere
  <2>1. CASE i = n
    <3>1. PICK j \in 1..N : names[j] = s
      BY <1>4, <1>8, <2>1 DEF RangeOf
    <3>2. L + j \in 1..(L + N)
      BY <1>4, <1>5
    <3> QED
      BY <1>5, <1>8, <2>1, <3>1, <3>2
  <2>2. CASE i # n
    <3>1. i \in 1..(n - 1)
      BY <1>1, <2>2
    <3>2. PICK k \in 1..L : symbols[k].name = s /\ symbols[k].mod = modules[i]
      BY <1>8, <3>1 DEF Table, ExportsThere
    <3>3. k \in 1..(L + N)
      BY <1>4, <1>5
    <3> QED
      BY <1>5, <3>2, <3>3
  <2> QED
    BY <2>1, <2>2
\* A module is that of an old symbol only if it was analysed before.
<1>13. ASSUME NEW k \in 1..L, NEW a \in 1..n, symbols[k].mod = modules[a]
       PROVE  a \in 1..(n - 1)
  <2>1. a \in 1..Len(modules)
    BY <1>1
  <2>2. ~Kernel(k)
    BY <1>1, <1>13, <2>1 DEF Kernel
  <2>3. PICK i \in 1..(n - 1) : modules[i] = modules[a]
    BY <1>9, <1>13, <2>2 DEF ExportOf
  <2>4. i \in 1..Len(modules)
    BY <1>1
  <2> QED
    BY <2>1, <2>3, <2>4 DEF ListedOnce
<1>14. InOrder(n)'
  <2> SUFFICES ASSUME NEW j \in 1..(L + N), NEW k \in 1..(L + N), j < k
               PROVE  /\ symbols'[k].mod = NULL => symbols'[j].mod = NULL
                      /\ \A a, b \in 1..n :
                           symbols'[j].mod = modules[a] /\ symbols'[k].mod = modules[b] => a <= b
    BY <1>5 DEF InOrder
  <2>1. CASE k \in 1..L
    <3>1. j \in 1..L /\ symbols'[k] = symbols[k] /\ symbols'[j] = symbols[j]
      BY <1>4, <1>5, <2>1
    <3>2. /\ symbols[k].mod = NULL => symbols[j].mod = NULL
          /\ \A a, b \in 1..(n - 1) :
               symbols[j].mod = modules[a] /\ symbols[k].mod = modules[b] => a <= b
      BY <1>8, <2>1, <3>1 DEF Table, InOrder
    <3> QED
      BY <1>13, <2>1, <3>1, <3>2
  <2>2. CASE k \notin 1..L
    <3>1. symbols'[k].mod = m /\ m # NULL
      BY <1>1, <1>7, <1>8, <2>2
    <3>2. ASSUME NEW a \in 1..n, NEW b \in 1..n, symbols'[k].mod = modules[b]
          PROVE  a <= b
      <4>1. b = n
        <5>1. b \in 1..Len(modules) /\ modules[b] = modules[n]
          BY <1>1, <1>8, <3>1, <3>2
        <5> QED
          BY <5>1 DEF ListedOnce
      <4> QED
        BY <1>1, <4>1
    <3> QED
      BY <3>1, <3>2
  <2> QED
    BY <2>1, <2>2
<1> QED
  BY <1>10, <1>11, <1>12, <1>14 DEF Table

\* The table is right in every loop that adds to it or searches it.
LEMMA TableKept ==
  ASSUME TypeOK, EarlyOK, ListedOnce, TableOK, Next
  PROVE  TableOK'
<1>1. Len(modules) \in Nat
  BY LenProperties DEF TypeOK
<1>2. ASSUME UNCHANGED <<elf, modules, symbols>>, NEW n, Table(n)
      PROVE  Table(n)'
  BY <1>2 DEF Table, NoStranger, KernelThere, ExportsThere, InOrder, Kernel, ExportOf
<1>3. CASE Discover
  BY <1>3 DEF Discover, TableOK
<1>4. CASE init_symtable
  <2>1. /\ phase' = "analysis" /\ pos' = 1 /\ symbols = <<>> /\ UNCHANGED <<elf, modules>>
        /\ symbols' = export_symbols(KernelSymbols, NULL)
    BY <1>4 DEF init_symtable, EarlyOK, files
  <2> DEFINE t == export_symbols(KernelSymbols, NULL)
             N == Len(KernelSymbols)
  <2>2. N \in Nat /\ DOMAIN KernelSymbols = 1..N
    BY ModuleSortAssumption, LenProperties
  <2>3. Len(symbols) = 0
    BY <2>1, EmptySeq
  <2>4. /\ Len(t) = Len(symbols) + N
        /\ \A k \in 1..N : /\ t[Len(symbols) + k].name = KernelSymbols[k]
                           /\ t[Len(symbols) + k].mod = NULL
    <3>1. KernelSymbols \in Seq(Symbols) /\ NULL \in Files \cup {NULL}
      BY ModuleSortAssumption
    <3> QED
      BY <3>1, ExportIs, Zenon
  <2>5. symbols' = t
    BY <2>1
  <2> HIDE DEF t, N
  <2>6. /\ Len(symbols') = N
        /\ \A k \in 1..N : symbols'[k].name = KernelSymbols[k] /\ symbols'[k].mod = NULL
    BY <2>2, <2>3, <2>4, <2>5
  <2>7. \A k \in 1..N : KernelSymbols[k] \in RangeOf(KernelSymbols)
    BY <2>2 DEF RangeOf
  <2>8. NoStranger(0)'
    BY <2>6, <2>7 DEF NoStranger, Kernel
  <2>9. KernelThere'
    <3>1. \A s \in RangeOf(KernelSymbols) : \E k \in 1..N : KernelSymbols[k] = s
      BY <2>2 DEF RangeOf
    <3> QED
      BY <2>6, <3>1 DEF KernelThere
  <2>10. ExportsThere(0)' /\ InOrder(0)'
    BY <2>6 DEF ExportsThere, InOrder
  <2>11. Analysed' = 0
    BY <2>1 DEF Analysed
  <2> QED
    BY <1>1, <2>1, <2>8, <2>9, <2>10, <2>11 DEF TableOK, Table
<1>5. CASE analysis_module
  <2>1. /\ phase = "analysis" /\ pos \in 1..Len(modules) /\ UNCHANGED <<elf, modules, phase>>
        /\ symbols' = export_symbols(elf.exports[modules[pos]], modules[pos])
        /\ pos' = pos + 1
    BY <1>1, <1>5 DEF analysis_module, TypeOK, files
  <2>2. PICK n \in 1..Len(modules) : n = pos
    BY <2>1
  <2>3. Table(n - 1)
    BY <2>1, <2>2 DEF TableOK, Analysed
  <2>4. Table(n)'
    BY <2>1, <2>2, <2>3, TableGrows
  <2>5. Analysed' = n
    BY <1>1, <2>1, <2>2 DEF Analysed
  <2>6. n \in 0..Len(modules')
    BY <1>1, <2>1
  <2> QED
    BY <2>4, <2>5, <2>6 DEF TableOK
<1>6. ASSUME NEW this, NEW next \in {"check", "sort", "done"}, LoopEnd(this, next),
             this \in {"analysis", "check", "sort"}
      PROVE  TableOK'
  <2>1. /\ phase = this /\ pos > Len(modules) /\ phase' = next
        /\ UNCHANGED <<elf, modules, symbols>>
    BY <1>6 DEF LoopEnd, files
  <2>2. Table(Analysed) /\ Analysed \in 0..Len(modules)
    BY <1>6, <2>1 DEF TableOK
  <2>3. Analysed = Len(modules)
    <3>1. pos \in Nat
      BY DEF TypeOK
    <3> QED
      BY <1>1, <2>1, <2>2, <3>1 DEF Analysed
  <2>4. Analysed' = Len(modules)
    BY <2>1 DEF Analysed
  <2> QED
    BY <1>2, <2>1, <2>2, <2>3, <2>4 DEF TableOK
<1>7. CASE check_dependency \/ Traversal
  <2>1. phase \in {"check", "sort"} /\ phase' \in {phase, "panic"}
    BY <1>7, Frames DEF check_dependency
  <2>2. UNCHANGED <<elf, modules, symbols>>
    BY <1>7 DEF check_dependency, Traversal, SortNext, Call, DropDependency, CyclicChain,
                Finish, files
  <2>3. Table(Len(modules))
    BY <2>1 DEF TableOK, Analysed
  <2>4. Analysed' = Len(modules) \/ phase' = "panic"
    BY <2>1, <2>2 DEF Analysed
  <2> QED
    BY <1>1, <1>2, <2>2, <2>3, <2>4 DEF TableOK
<1> QED
  BY <1>3, <1>4, <1>5, <1>6, <1>7 DEF Next, Traversal

\* One iteration of check_dependency that finds an exporter.
Resolves(mod, s, target) ==
  /\ phase = "check" /\ pos <= Len(modules) /\ mod = modules[pos] /\ mod \in Files
  /\ undef_syms[mod] # <<>> /\ s = Head(undef_syms[mod]) /\ s \in RangeOf(elf.undefs[mod])
  /\ undef_syms' = [undef_syms EXCEPT ![mod] = Tail(undef_syms[mod])]
  /\ target \in Files \cup {NULL}
  /\ target = NULL => s \in RangeOf(KernelSymbols)
  /\ target # NULL => target \in Providers(mod) /\ s \in RangeOf(elf.exports[target])
  /\ dependencies' = IF target = NULL \/ find_dependency(mod, target)
                       THEN dependencies
                       ELSE [dependencies EXCEPT ![mod] = Append(@, target)]
  /\ UNCHANGED <<elf, modules, phase, pos, symbols, status, stack, loaded>>

\* What check_dependency does.
LEMMA Checked ==
  ASSUME TypeOK, ListedOnce, TableOK, CoverOK, check_dependency
  PROVE  \/ /\ undef_syms[modules[pos]] = <<>> /\ pos' = pos + 1
            /\ UNCHANGED <<elf, modules, phase, symbols, undef_syms, dependencies, status,
                           stack, loaded>>
         \/ /\ phase' = "panic"
            /\ UNCHANGED <<elf, modules, startpoint, symbols, dependencies, status, stack,
                           loaded>>
            /\ pos \in 1..Len(modules) /\ ~Resolvable(modules[pos])
         \/ \E mod, s, target : Resolves(mod, s, target)
<1> DEFINE mod == modules[pos]
           und == undef_syms[mod]
           s   == Head(und)
           target == match_undef(s)
<1>1. /\ phase = "check" /\ pos <= Len(modules)
      /\ UNCHANGED <<elf, startpoint, modules, symbols, status, stack, loaded>>
      /\ \/ und = <<>> /\ pos' = pos + 1 /\ UNCHANGED <<phase, undef_syms, dependencies>>
         \/ /\ und # <<>> /\ Entries(s) = {} /\ phase' = "panic"
            /\ UNCHANGED <<pos, undef_syms, dependencies>>
         \/ /\ und # <<>> /\ Entries(s) # {}
            /\ undef_syms' = [undef_syms EXCEPT ![mod] = Tail(und)]
            /\ dependencies' = IF target = NULL \/ find_dependency(mod, target)
                                 THEN dependencies
                                 ELSE [dependencies EXCEPT ![mod] = Append(@, target)]
            /\ UNCHANGED <<phase, pos>>
  BY DEF check_dependency, files
<1>2. pos \in 1..Len(modules) /\ DOMAIN modules = 1..Len(modules)
  BY <1>1, LenProperties DEF TypeOK
<1>3. modules \in Seq(Files)
  BY DEF TypeOK
<1>4. mod \in Files
  BY <1>2, <1>3, ElementOfSeq
<1>5. und \in Seq(Symbols)
  BY <1>4 DEF TypeOK
<1>6. Table(Len(modules))
  BY <1>1 DEF TableOK, Analysed
<1>7. RangeOf(und) \subseteq RangeOf(elf.undefs[mod])
  BY <1>1, <1>2 DEF CoverOK
<1>8. ASSUME und # <<>> PROVE s \in Symbols /\ s \in RangeOf(elf.undefs[mod])
  BY <1>5, <1>7, <1>8, RangeFacts
<1>9. CASE und = <<>>
  BY <1>1, <1>9
<1>10. CASE und # <<>> /\ Entries(s) = {}
  <2>1. s \notin RangeOf(KernelSymbols) /\ Exporters(s) = {}
    BY <1>6, <1>8, <1>10, Unmatched
  <2>2. ~Resolvable(mod)
    BY <1>8, <1>10, <2>1 DEF Resolvable
  <2> QED
    BY <1>1, <1>2, <1>10, <2>2
<1>11. CASE und # <<>> /\ Entries(s) # {}
  <2>1. /\ target \in Files \cup {NULL}
        /\ target = NULL => s \in RangeOf(KernelSymbols)
        /\ target # NULL =>
              /\ s \notin RangeOf(KernelSymbols) /\ s \in RangeOf(elf.exports[target])
              /\ \E i \in 1..Len(modules) : /\ target = modules[i] /\ i \in Exporters(s)
                                            /\ \A j \in Exporters(s) : i <= j
    BY <1>6, <1>8, <1>11, Matched
  <2>2. target # NULL => target \in Providers(mod)
    <3> HIDE DEF mod, s, target
    <3> QED
      BY <1>2, <1>8, <1>11, <2>1 DEF Providers
  <2>3. Resolves(mod, s, target)
    BY <1>1, <1>4, <1>8, <1>11, <2>1, <2>2 DEF Resolves
  <2> QED
    BY <2>3
<1> QED
  BY <1>9, <1>10, <1>11

\* What a module needs depends on the files and on the list of modules only.
LEMMA ProvidersStay ==
  ASSUME UNCHANGED <<elf, modules>>
  PROVE  \A m : Providers(m)' = Providers(m)
BY DEF Providers, Exporters

\* The dependency that a traversal step drops is loaded.
LEMMA Dropped ==
  ASSUME TypeOK, DropDependency
  PROVE  \E mod \in Files :
           /\ phase = "sort" /\ stack # <<>> /\ mod = stack[1] /\ dependencies[mod] # <<>>
           /\ status[Head(dependencies[mod])] = "DONE"
           /\ dependencies' = [dependencies EXCEPT ![mod] = Tail(@)]
           /\ RangeOf(dependencies[mod])
                = RangeOf(Tail(dependencies[mod])) \cup {Head(dependencies[mod])}
           /\ UNCHANGED <<elf, startpoint, phase, modules, pos, symbols, undef_syms, status,
                          stack, loaded>>
<1>1. PICK mod \in Files :
        /\ Traversing(mod) /\ dependencies[mod] # << >>
        /\ status[Head(dependencies[mod])] = "DONE"
        /\ dependencies' = [dependencies EXCEPT ![mod] = Tail(@)]
        /\ UNCHANGED <<elf, startpoint, phase, modules, pos, symbols, undef_syms, status,
                       stack, loaded>>
  BY DEF DropDependency, files
<1>2. stack \in Seq(Files) /\ dependencies[mod] \in Seq(Files)
  BY DEF TypeOK
<1>3. phase = "sort" /\ stack # <<>> /\ mod = stack[1]
  BY <1>1, <1>2, Popped DEF Traversing
<1>4. RangeOf(dependencies[mod])
        = RangeOf(Tail(dependencies[mod])) \cup {Head(dependencies[mod])}
  BY <1>1, <1>2, RangeFacts
<1> QED
  BY <1>1, <1>3, <1>4

\* check_dependency adds nothing but providers.
LEMMA DepsKept ==
  ASSUME TypeOK, EarlyOK, ListedOnce, TableOK, DepsOK, CoverOK, Next
  PROVE  DepsOK'
<1>1. ASSUME UNCHANGED <<elf, modules, dependencies>> PROVE DepsOK'
  BY <1>1, ProvidersStay DEF DepsOK
<1>2. CASE Discover
  <2>1. UNCHANGED dependencies /\ \A f \in Files : dependencies[f] = <<>>
    BY <1>2 DEF Discover, EarlyOK
  <2>2. RangeOf(<<>>) = {}
    BY DEF RangeOf
  <2> QED
    BY <2>1, <2>2 DEF DepsOK
<1>3. CASE check_dependency
  <2>1. ASSUME NEW mod, NEW s, NEW target, Resolves(mod, s, target) PROVE DepsOK'
    <3>1. CASE target = NULL \/ find_dependency(mod, target)
      BY <1>1, <2>1, <3>1 DEF Resolves
    <3>2. CASE target # NULL /\ ~find_dependency(mod, target)
      <4>1. /\ mod \in Files /\ target \in Files /\ target \in Providers(mod)
            /\ dependencies' = [dependencies EXCEPT ![mod] = Append(@, target)]
            /\ UNCHANGED <<elf, modules>>
        BY <2>1, <3>2 DEF Resolves
      <4>2. dependencies \in [Files -> Seq(Files)] /\ dependencies[mod] \in Seq(Files)
        BY <4>1 DEF TypeOK
      <4>3. RangeOf(Append(dependencies[mod], target)) = RangeOf(dependencies[mod]) \cup {target}
        BY <4>1, <4>2, Appended
      <4> QED
        BY <4>1, <4>2, <4>3, ProvidersStay DEF DepsOK
    <3> QED
      BY <3>1, <3>2
  <2> QED
    BY <1>1, <1>3, <2>1, Checked
<1>4. CASE DropDependency
  <2>1. PICK mod \in Files :
          /\ dependencies' = [dependencies EXCEPT ![mod] = Tail(@)]
          /\ RangeOf(dependencies[mod])
               = RangeOf(Tail(dependencies[mod])) \cup {Head(dependencies[mod])}
          /\ UNCHANGED <<elf, modules>>
    BY <1>4, Dropped
  <2>2. dependencies \in [Files -> Seq(Files)]
    BY DEF TypeOK
  <2> QED
    BY <2>1, <2>2, ProvidersStay DEF DepsOK
<1>5. CASE init_symtable \/ analysis_module \/ LoopEnd("analysis", "check")
           \/ LoopEnd("check", "sort") \/ LoopEnd("sort", "done")
  BY <1>1, <1>5 DEF init_symtable, analysis_module, LoopEnd, files
<1>6. CASE SortNext \/ Call \/ CyclicChain \/ Finish
  BY <1>1, <1>6 DEF SortNext, Call, CyclicChain, Finish, files
<1> QED
  BY <1>2, <1>3, <1>4, <1>5, <1>6 DEF Next

\* A missing symbol stays covered while dependencies are only added or loaded.
LEMMA CoveredStays ==
  ASSUME UNCHANGED elf, NEW m, NEW todo, Covered(m, todo),
         \A d \in Files : d \in RangeOf(dependencies[m]) \/ status[d] = "DONE"
                          => d \in RangeOf(dependencies'[m]) \/ status'[d] = "DONE"
  PROVE  Covered(m, todo)'
BY DEF Covered

\* What the traversal does to the dependencies that are known or loaded.
LEMMA TraversalCovers ==
  ASSUME TypeOK, Traversal, DoneOK, StackOK
  PROVE  \A m, d \in Files : d \in RangeOf(dependencies[m]) \/ status[d] = "DONE"
                             => d \in RangeOf(dependencies'[m]) \/ status'[d] = "DONE"
<1>1. dependencies \in [Files -> Seq(Files)] /\ status \in [Files -> {"NONE", "DOING", "DONE"}]
  BY DEF TypeOK
<1>2. CASE DropDependency
  BY <1>1, <1>2, Dropped
<1>3. ASSUME NEW f, Enter(f) PROVE \A d \in Files : status[d] = "DONE" => status'[d] = "DONE"
  BY <1>1, <1>3 DEF Enter
<1>4. CASE SortNext \/ Call
  BY <1>3, <1>4 DEF SortNext, Call
<1>5. CASE CyclicChain
  BY <1>5 DEF CyclicChain
<1>6. CASE Finish
  BY <1>1, <1>6 DEF Finish
<1> QED
  BY <1>2, <1>4, <1>5, <1>6 DEF Traversal

\* check_dependency forgets no symbol that it takes off the list, and the traversal
\* drops no dependency that is not loaded.
LEMMA CoverKept ==
  ASSUME TypeOK, EarlyOK, ListedOnce, TableOK, DoneOK, StackOK, CoverOK, Next
  PROVE  CoverOK'
<1>1. modules \in Seq(Files) /\ Len(modules) \in Nat /\ pos \in Nat \ {0}
  BY LenProperties DEF TypeOK
<1>2. \A i \in 1..Len(modules) : modules[i] \in Files
  BY <1>1, ElementOfSeq
<1>3. RangeOf(<<>>) = {}
  BY DEF RangeOf
<1>4. CASE Discover \/ init_symtable
  BY <1>4, Frames DEF Discover, init_symtable, EarlyOK, CoverOK
<1>5. CASE analysis_module
  <2>1. /\ phase' = "analysis" /\ pos \in 1..Len(modules) /\ pos' = pos + 1
        /\ UNCHANGED <<elf, modules>>
        /\ undef_syms' = [undef_syms EXCEPT ![modules[pos]] = elf.undefs[modules[pos]]]
        /\ \A i \in 1..(pos - 1) : undef_syms[modules[i]] = elf.undefs[modules[i]]
    BY <1>1, <1>5 DEF analysis_module, files, CoverOK
  <2>2. undef_syms \in [Files -> Seq(Symbols)]
    BY DEF TypeOK
  <2>3. ASSUME NEW i \in 1..pos PROVE undef_syms'[modules[i]] = elf.undefs[modules[i]]
    <3>1. i \in 1..Len(modules)
      BY <1>1, <2>1
    <3>2. CASE i = pos
      BY <1>2, <2>1, <2>2, <3>1, <3>2
    <3>3. CASE i # pos
      <4>1. modules[i] # modules[pos] /\ i \in 1..(pos - 1)
        BY <1>1, <2>1, <3>1, <3>3 DEF ListedOnce
      <4> QED
        BY <1>2, <2>1, <2>2, <3>1, <4>1
    <3> QED
      BY <3>2, <3>3
  <2>4. pos' - 1 = pos
    BY <1>1, <2>1
  <2> QED
    BY <2>1, <2>3, <2>4 DEF CoverOK
<1>6. CASE LoopEnd("analysis", "check")
  <2>1. /\ phase = "analysis" /\ phase' = "check" /\ pos' = 1 /\ pos > Len(modules)
        /\ UNCHANGED <<elf, modules, undef_syms>>
    BY <1>6 DEF LoopEnd, files
  <2>2. \A i \in 1..Len(modules) : undef_syms[modules[i]] = elf.undefs[modules[i]]
    BY <1>1, <2>1 DEF CoverOK
  <2>3. \A i \in 1..Len(modules) : Covered(modules[i], RangeOf(undef_syms[modules[i]]))'
    BY <2>1, <2>2 DEF Covered
  <2> QED
    BY <1>1, <2>1, <2>2, <2>3 DEF CoverOK
<1>7. CASE check_dependency
  <2>1. phase = "check" /\ pos <= Len(modules) /\ UNCHANGED <<elf, modules, status>>
    BY <1>7 DEF check_dependency, files
  <2>2. \A i \in 1..Len(modules) :
          /\ i < pos => undef_syms[modules[i]] = <<>>
          /\ RangeOf(undef_syms[modules[i]]) \subseteq RangeOf(elf.undefs[modules[i]])
          /\ Covered(modules[i], RangeOf(undef_syms[modules[i]]))
    BY <2>1 DEF CoverOK
  <2>3. CASE /\ undef_syms[modules[pos]] = <<>> /\ pos' = pos + 1
             /\ UNCHANGED <<phase, undef_syms, dependencies>>
    <3>1. \A i \in 1..Len(modules) : Covered(modules[i], RangeOf(undef_syms[modules[i]]))'
      BY <2>1, <2>2, <2>3 DEF Covered
    <3>2. \A i \in 1..Len(modules) : i < pos' => i < pos \/ i = pos
      BY <1>1, <2>3
    <3> QED
      BY <2>1, <2>2, <2>3, <3>1, <3>2 DEF CoverOK
  <2>4. CASE phase' = "panic"
    BY <2>4 DEF CoverOK
  <2>5. ASSUME NEW mod, NEW s, NEW target, Resolves(mod, s, target) PROVE CoverOK'
    <3>1. /\ mod \in Files /\ mod = modules[pos] /\ undef_syms[mod] # <<>>
          /\ s = Head(undef_syms[mod]) /\ target \in Files \cup {NULL}
          /\ target = NULL => s \in RangeOf(KernelSymbols)
          /\ target # NULL => s \in RangeOf(elf.exports[target])
          /\ undef_syms' = [undef_syms EXCEPT ![mod] = Tail(undef_syms[mod])]
          /\ dependencies' = IF target = NULL \/ find_dependency(mod, target)
                               THEN dependencies
                               ELSE [dependencies EXCEPT ![mod] = Append(@, target)]
          /\ UNCHANGED <<phase, pos>>
      BY <2>5 DEF Resolves
    <3>2. /\ undef_syms \in [Files -> Seq(Symbols)] /\ undef_syms[mod] \in Seq(Symbols)
          /\ dependencies \in [Files -> Seq(Files)] /\ dependencies[mod] \in Seq(Files)
      BY <3>1 DEF TypeOK
    <3>3. RangeOf(undef_syms[mod]) = RangeOf(Tail(undef_syms[mod])) \cup {s}
      BY <3>1, <3>2, RangeFacts
    <3>4. \A m \in Files : RangeOf(dependencies[m]) \subseteq RangeOf(dependencies'[m])
      <4>1. ASSUME target \in Files
            PROVE  RangeOf(Append(dependencies[mod], target)) = RangeOf(dependencies[mod]) \cup {target}
        BY <3>2, <4>1, Appended
      <4> QED
        BY <3>1, <3>2, <4>1
    <3>5. target # NULL => target \in RangeOf(dependencies'[mod]) /\ target \in Files
      <4>1. ASSUME target \in Files
            PROVE  RangeOf(Append(dependencies[mod], target)) = RangeOf(dependencies[mod]) \cup {target}
        BY <3>2, <4>1, Appended
      <4> QED
        BY <3>1, <3>2, <4>1 DEF find_dependency
    <3>6. ASSUME NEW i \in 1..Len(modules)
          PROVE  /\ i < pos => undef_syms'[modules[i]] = <<>>
                 /\ RangeOf(undef_syms'[modules[i]]) \subseteq RangeOf(elf.undefs[modules[i]])
                 /\ Covered(modules[i], RangeOf(undef_syms[modules[i]]))'
      <4>1. modules[i] \in Files
        BY <1>2
      <4>2. CASE modules[i] # mod
        <5>1. undef_syms'[modules[i]] = undef_syms[modules[i]]
          BY <3>1, <3>2, <4>1, <4>2
        <5>2. RangeOf(dependencies[modules[i]]) \subseteq RangeOf(dependencies'[modules[i]])
          BY <3>4, <4>1
        <5>3. Covered(modules[i], RangeOf(undef_syms[modules[i]]))'
          BY <2>1, <2>2, <5>1, <5>2 DEF Covered
        <5> QED
          BY <2>2, <5>1, <5>3
      <4>3. CASE modules[i] = mod
        <5>1. undef_syms'[modules[i]] = Tail(undef_syms[mod])
          BY <3>1, <3>2, <4>3
        <5>2. ~(i < pos)
          BY <2>2, <3>1, <4>3
        <5>3. RangeOf(dependencies[mod]) \subseteq RangeOf(dependencies'[mod])
          BY <3>1, <3>4
        <5>4. Covered(mod, RangeOf(undef_syms[mod]))
          BY <2>2, <4>3
        <5>5. Covered(modules[i], RangeOf(undef_syms[modules[i]]))'
          BY <2>1, <3>1, <3>3, <3>5, <4>3, <5>1, <5>3, <5>4 DEF Covered
        <5> QED
          BY <2>2, <3>3, <4>3, <5>1, <5>2, <5>5
      <4> QED
        BY <4>2, <4>3
    <3> QED
      BY <2>1, <3>1, <3>6 DEF CoverOK
  <2> QED
    BY <1>7, <2>3, <2>4, <2>5, Checked
<1>8. CASE LoopEnd("check", "sort")
  <2>1. /\ phase = "check" /\ phase' = "sort" /\ pos > Len(modules)
        /\ UNCHANGED <<elf, modules, dependencies, status>>
    BY <1>8 DEF LoopEnd, files
  <2>2. \A i \in 1..Len(modules) :
          undef_syms[modules[i]] = <<>> /\ Covered(modules[i], RangeOf(undef_syms[modules[i]]))
    BY <1>1, <2>1 DEF CoverOK
  <2>3. \A i \in 1..Len(modules) : Covered(modules[i], {})'
    BY <1>3, <2>1, <2>2 DEF Covered
  <2> QED
    BY <2>1, <2>3 DEF CoverOK
<1>9. CASE Traversal
  <2>1. phase = "sort" /\ phase' \in {"sort", "panic"} /\ UNCHANGED <<elf, modules>>
    BY <1>9, Frames DEF Discover
  <2>2. \A i \in 1..Len(modules) : Covered(modules[i], {})
    BY <2>1 DEF CoverOK
  <2>3. \A i \in 1..Len(modules) : Covered(modules[i], {})'
    BY <1>2, <1>9, <2>1, <2>2, TraversalCovers DEF Covered
  <2> QED
    BY <2>1, <2>3 DEF CoverOK
<1>10. CASE LoopEnd("sort", "done")
  <2>1. phase = "sort" /\ phase' = "done" /\ UNCHANGED <<elf, modules, dependencies, status>>
    BY <1>10 DEF LoopEnd, files
  <2> QED
    BY <2>1 DEF CoverOK, Covered
<1> QED
  BY <1>4, <1>5, <1>6, <1>7, <1>8, <1>9, <1>10 DEF Next, Traversal

-----------------------------------------------------------------------------
(* The traversal.                                                          *)

\* The module that is waited for.
Awaited == Head(dependencies[stack[1]])

\* Each step of the traversal, of its innermost module.
Calls == /\ phase = "sort" /\ stack # <<>> /\ dependencies[stack[1]] # <<>>
         /\ status[Awaited] = "NONE"
         /\ status' = [status EXCEPT ![Awaited] = "DOING"] /\ stack' = <<Awaited>> \o stack
         /\ UNCHANGED <<elf, startpoint, phase, modules, pos, dependencies, loaded>>

Drops == /\ phase = "sort" /\ stack # <<>> /\ dependencies[stack[1]] # <<>>
         /\ status[Awaited] = "DONE"
         /\ dependencies' = [dependencies EXCEPT ![stack[1]] = Tail(@)]
         /\ UNCHANGED <<elf, startpoint, phase, modules, pos, status, stack, loaded>>

Breaks == /\ phase = "sort" /\ stack # <<>> /\ dependencies[stack[1]] # <<>>
          /\ status[Awaited] = "DOING"
          /\ stack' = Tail(stack)
          /\ UNCHANGED <<elf, startpoint, phase, modules, pos, dependencies, status, loaded>>

Loads == /\ phase = "sort" /\ stack # <<>> /\ dependencies[stack[1]] = <<>>
         /\ status' = [status EXCEPT ![stack[1]] = "DONE"]
         /\ loaded' = Append(loaded, stack[1]) /\ stack' = Tail(stack)
         /\ UNCHANGED <<elf, startpoint, phase, modules, pos, dependencies>>

\* And of the outer loop.
Passes == /\ phase = "sort" /\ stack = <<>> /\ pos \in 1..Len(modules)
          /\ ~Wanted(modules[pos]) \/ status[modules[pos]] = "DONE"
          /\ pos' = pos + 1
          /\ UNCHANGED <<elf, startpoint, phase, modules, dependencies, status, stack, loaded>>

Starts == /\ phase = "sort" /\ stack = <<>> /\ pos \in 1..Len(modules)
          /\ Wanted(modules[pos]) /\ status[modules[pos]] = "NONE"
          /\ status' = [status EXCEPT ![modules[pos]] = "DOING"]
          /\ stack' = <<modules[pos]>> \o stack
          /\ UNCHANGED <<elf, startpoint, phase, modules, pos, dependencies, loaded>>

Panics == /\ phase = "sort" /\ stack = <<>> /\ pos \in 1..Len(modules)
          /\ Wanted(modules[pos]) /\ status[modules[pos]] = "DOING" /\ phase' = "panic"
          /\ UNCHANGED <<elf, startpoint, modules, pos, dependencies, status, stack, loaded>>

\* A step of the traversal is one of these.
LEMMA TraversalIs ==
  ASSUME TypeOK, Traversal
  PROVE  Calls \/ Drops \/ Breaks \/ Loads \/ Passes \/ Starts \/ Panics
<1>1. stack \in Seq(Files) /\ modules \in Seq(Files) /\ Len(modules) \in Nat /\ pos \in Nat \ {0}
  BY LenProperties DEF TypeOK
<1>2. ASSUME NEW mod, Traversing(mod) PROVE phase = "sort" /\ stack # <<>> /\ mod = stack[1]
  BY <1>1, <1>2, Popped DEF Traversing
<1>3. CASE Call
  BY <1>2, <1>3 DEF Call, Enter, Calls, Awaited, files
<1>4. CASE DropDependency
  BY <1>2, <1>4 DEF DropDependency, Drops, Awaited, files
<1>5. CASE CyclicChain
  BY <1>2, <1>5 DEF CyclicChain, Breaks, Awaited, files
<1>6. CASE Finish
  BY <1>2, <1>6 DEF Finish, Loads, files
<1>7. CASE SortNext
  <2>1. /\ phase = "sort" /\ stack = <<>> /\ pos \in 1..Len(modules)
        /\ UNCHANGED <<elf, startpoint, modules, dependencies, loaded>>
    BY <1>1, <1>7 DEF SortNext, files
  <2>2. \/ /\ ~Wanted(modules[pos]) \/ status[modules[pos]] = "DONE"
           /\ pos' = pos + 1
           /\ UNCHANGED <<phase, status, stack>>
        \/ Wanted(modules[pos]) /\ Enter(modules[pos]) /\ UNCHANGED <<phase, pos>>
        \/ /\ Wanted(modules[pos]) /\ status[modules[pos]] = "DOING" /\ phase' = "panic"
           /\ UNCHANGED <<pos, status, stack>>
    BY <1>7 DEF SortNext
  <2> QED
    BY <2>1, <2>2 DEF Enter, Passes, Starts, Panics
<1> QED
  BY <1>3, <1>4, <1>5, <1>6, <1>7 DEF Traversal

\* The innermost module and the one it waits for.
LEMMA TopIs ==
  ASSUME TypeOK, StackOK, DepsOK, stack # <<>>
  PROVE  /\ Len(stack) \in Nat \ {0} /\ stack[1] \in Files /\ status[stack[1]] = "DOING"
         /\ stack[1] \in Listed
         /\ dependencies[stack[1]] # <<>> =>
              Awaited \in Files /\ Awaited \in Providers(stack[1]) /\ Awaited \in Listed
<1>1. stack \in Seq(Files) /\ modules \in Seq(Files)
  BY DEF TypeOK
<1>2. Len(stack) \in Nat \ {0} /\ stack[1] \in Files
  BY <1>1, Popped
<1>3. status[stack[1]] = "DOING" /\ stack[1] \in Listed
  BY <1>2 DEF StackOK
<1>4. ASSUME dependencies[stack[1]] # <<>>
      PROVE  Awaited \in Files /\ Awaited \in Providers(stack[1]) /\ Awaited \in Listed
  <2>1. dependencies[stack[1]] \in Seq(Files)
    BY <1>2 DEF TypeOK
  <2>2. Awaited \in RangeOf(dependencies[stack[1]]) /\ Awaited \in Files
    BY <1>4, <2>1, RangeFacts DEF Awaited
  <2>3. Awaited \in Providers(stack[1])
    BY <1>2, <2>2 DEF DepsOK
  <2>4. Providers(stack[1]) \subseteq Listed
    BY DEF Providers, Listed, RangeOf
  <2> QED
    BY <2>2, <2>3, <2>4
<1> QED
  BY <1>2, <1>3, <1>4

\* The status says DONE of what was handed over, and only of that.
LEMMA DoneKept ==
  ASSUME TypeOK, DepsOK, DoneOK, StackOK, Next
  PROVE  DoneOK'
<1>1. status \in [Files -> {"NONE", "DOING", "DONE"}] /\ loaded \in Seq(Files)
  BY DEF TypeOK
<1>2. DOMAIN loaded = 1..Len(loaded) /\ Len(loaded) \in Nat
  BY <1>1, LenProperties
<1>3. CASE UNCHANGED <<status, loaded>>
  BY <1>3 DEF DoneOK, LoadedOnce
<1>4. CASE Calls \/ Starts
  <2>1. PICK f : /\ status[f] = "NONE" /\ status' = [status EXCEPT ![f] = "DOING"]
                 /\ UNCHANGED loaded
    BY <1>4 DEF Calls, Starts
  <2> QED
    BY <1>1, <2>1 DEF DoneOK, LoadedOnce
<1>5. CASE Loads
  <2> DEFINE mod == stack[1]
  <2>1. mod \in Files /\ status[mod] = "DOING"
    BY <1>5, TopIs DEF Loads
  <2>2. mod \notin RangeOf(loaded)
    BY <2>1 DEF DoneOK
  <2>3. loaded' = Append(loaded, mod) /\ status' = [status EXCEPT ![mod] = "DONE"]
    BY <1>5 DEF Loads
  <2> HIDE DEF mod
  <2>4. /\ loaded' \in Seq(Files) /\ Len(loaded') = Len(loaded) + 1
        /\ \A k \in 1..Len(loaded) : loaded'[k] = loaded[k]
        /\ loaded'[Len(loaded) + 1] = mod
        /\ RangeOf(loaded') = RangeOf(loaded) \cup {mod}
    BY <1>1, <2>1, <2>3, Appended
  <2>5. DOMAIN loaded' = 1..(Len(loaded) + 1)
    BY <2>4, LenProperties
  <2>6. \A k \in 1..Len(loaded) : loaded[k] # mod
    BY <1>2, <2>2 DEF RangeOf
  <2>7. \A k \in 1..(Len(loaded) + 1) : k \in 1..Len(loaded) \/ k = Len(loaded) + 1
    BY <1>2
  <2>8. LoadedOnce'
    BY <1>2, <2>4, <2>5, <2>6, <2>7 DEF DoneOK, LoadedOnce
  <2>9. \A f \in Files : status'[f] = "DONE" <=> f \in RangeOf(loaded')
    BY <1>1, <2>1, <2>3, <2>4 DEF DoneOK
  <2> QED
    BY <2>8, <2>9 DEF DoneOK
<1>6. CASE Drops \/ Breaks \/ Passes \/ Panics
  BY <1>3, <1>6 DEF Drops, Breaks, Passes, Panics
<1> QED
  BY <1>3, <1>4, <1>5, <1>6, Frames, TraversalIs

\* A call pushes the dependency it waits for, a return pops it.
LEMMA StackKept ==
  ASSUME TypeOK, EarlyOK, DepsOK, DoneOK, StackOK, Next
  PROVE  StackOK'
<1>1. /\ status \in [Files -> {"NONE", "DOING", "DONE"}] /\ stack \in Seq(Files)
      /\ dependencies \in [Files -> Seq(Files)] /\ modules \in Seq(Files)
  BY DEF TypeOK
<1>2. Len(stack) \in Nat /\ Len(modules) \in Nat /\ \A k \in 1..Len(stack) : stack[k] \in Files
  BY <1>1, LenProperties, ElementOfSeq
<1>3. DOMAIN modules = 1..Len(modules) /\ \A i \in 1..Len(modules) : modules[i] \in Files
  BY <1>1, LenProperties, ElementOfSeq
<1>4. CASE ~Traversal
  <2>1. UNCHANGED <<status, stack, loaded>>
    BY <1>4, Frames
  <2>2. stack = <<>>
    <3> SUFFICES ASSUME stack # <<>> PROVE FALSE
      OBVIOUS
    <3>1. phase = "sort" /\ pos <= Len(modules) /\ pos \in Nat
      BY DEF StackOK, TypeOK
    <3>2. LoopEnd("sort", "done")
      BY <1>4, <3>1 DEF Next, Traversal, Discover, init_symtable, analysis_module, LoopEnd,
                        check_dependency
    <3> QED
      BY <1>2, <3>1, <3>2 DEF LoopEnd
  <2>3. Len(stack) = 0
    BY <1>1, <2>2, EmptySeq
  <2> QED
    BY <2>1, <2>2, <2>3 DEF StackOK
<1>5. CASE Calls \/ Starts
  <2> DEFINE t == stack'
  <2>1. PICK f \in Files :
          /\ f \in Listed /\ status[f] = "NONE" /\ status' = [status EXCEPT ![f] = "DOING"]
          /\ stack' = <<f>> \o stack /\ phase = "sort"
          /\ UNCHANGED <<startpoint, phase, modules, pos, dependencies>>
          /\ \/ stack # <<>> /\ dependencies[stack[1]] # <<>> /\ f = Head(dependencies[stack[1]])
             \/ stack = <<>> /\ pos <= Len(modules) /\ f = modules[pos] /\ Wanted(f)
    <3>1. CASE Calls
      BY <3>1, TopIs DEF Calls, Awaited
    <3>2. CASE Starts
      <4>1. modules[pos] \in Files /\ modules[pos] \in Listed
        BY <1>3, <3>2 DEF Starts, Listed, RangeOf
      <4>2. pos <= Len(modules)
        BY <1>2, <3>2 DEF Starts
      <4> QED
        BY <3>2, <4>1, <4>2, Zenon DEF Starts
    <3> QED
      BY <1>5, <3>1, <3>2
  <2>2. /\ t # <<>> /\ Len(t) = Len(stack) + 1 /\ t[1] = f
        /\ \A k \in 1..Len(stack) : t[k + 1] = stack[k]
    BY <1>1, <2>1, Pushed
  <2> HIDE DEF t
  <2>3. \A k \in 1..Len(t) : k = 1 \/ (k - 1 \in 1..Len(stack) /\ t[k] = stack[k - 1])
    <3>1. ASSUME NEW k \in 1..Len(t), k # 1 PROVE k - 1 \in 1..Len(stack) /\ t[k] = stack[k - 1]
      <4>1. k - 1 \in 1..Len(stack) /\ (k - 1) + 1 = k
        BY <1>2, <2>2, <3>1
      <4> QED
        BY <2>2, <4>1
    <3> QED
      BY <3>1
  <2>4. Listed' = Listed
    BY <2>1 DEF Listed
  <2>5. \A k \in 1..Len(stack) : stack[k] # f
    BY <2>1 DEF StackOK
  <2>6. \A k \in 1..Len(t) : status'[t[k]] = "DOING" /\ t[k] \in Listed'
    <3>1. status'[f] = "DOING"
      BY <1>1, <2>1
    <3>2. \A k \in 1..Len(stack) : status'[stack[k]] = "DOING" /\ stack[k] \in Listed
      BY <1>1, <1>2, <2>1, <2>5 DEF StackOK
    <3> QED
      BY <2>1, <2>2, <2>3, <2>4, <3>1, <3>2
  <2>7. \A j, k \in 1..Len(t) : t[j] = t[k] => j = k
    <3> SUFFICES ASSUME NEW j \in 1..Len(t), NEW k \in 1..Len(t), t[j] = t[k] PROVE j = k
      OBVIOUS
    <3>1. CASE j # 1 /\ k # 1
      <4>1. j - 1 = k - 1
        BY <2>3, <3>1 DEF StackOK
      <4> QED
        BY <1>2, <2>2, <4>1
    <3>2. CASE j = 1 \/ k = 1
      BY <2>2, <2>3, <2>5, <3>2
    <3> QED
      BY <3>1, <3>2
  <2>8. \A k \in 1..(Len(t) - 1) : dependencies[t[k + 1]] # <<>> /\ Head(dependencies[t[k + 1]]) = t[k]
    <3> SUFFICES ASSUME NEW k \in 1..(Len(t) - 1)
                 PROVE  dependencies[t[k + 1]] # <<>> /\ Head(dependencies[t[k + 1]]) = t[k]
      OBVIOUS
    <3>1. k \in 1..Len(stack) /\ t[k + 1] = stack[k]
      BY <1>2, <2>2
    <3>2. CASE k = 1
      <4>1. stack # <<>>
        BY <1>1, <3>1, EmptySeq
      <4> QED
        BY <2>1, <2>2, <3>1, <3>2, <4>1
    <3>3. CASE k # 1
      <4>1. k - 1 \in 1..(Len(stack) - 1) /\ (k - 1) + 1 = k
        BY <1>2, <3>1, <3>3
      <4>2. t[k] = stack[k - 1]
        BY <1>2, <2>3, <3>1, <3>3, <2>2
      <4> QED
        BY <3>1, <4>1, <4>2 DEF StackOK
    <3> QED
      BY <3>2, <3>3
  <2>9. phase' = "sort" /\ pos' <= Len(modules') /\ t[Len(t)] = modules'[pos'] /\ Wanted(modules[pos])'
    <3>1. CASE stack = <<>>
      <4>1. Len(stack) = 0
        BY <1>1, <3>1, EmptySeq
      <4> QED
        BY <2>1, <2>2, <3>1, <4>1 DEF Wanted
    <3>2. CASE stack # <<>>
      <4>1. Len(stack) \in 1..Len(stack)
        BY <1>1, <1>2, <3>2, EmptySeq
      <4>2. t[Len(t)] = stack[Len(stack)]
        BY <2>2, <4>1
      <4> QED
        BY <2>1, <3>2, <4>2 DEF StackOK, Wanted
    <3> QED
      BY <3>1, <3>2
  <2> QED
    BY <2>1, <2>6, <2>7, <2>8, <2>9 DEF StackOK, t
<1>6. CASE Drops
  <2> DEFINE mod == stack[1]
  <2>1. /\ mod \in Files /\ phase = "sort"
        /\ dependencies' = [dependencies EXCEPT ![mod] = Tail(dependencies[mod])]
        /\ UNCHANGED <<startpoint, phase, modules, pos, status, stack>>
    BY <1>6, TopIs DEF Drops
  <2>2. ASSUME NEW k \in 1..(Len(stack) - 1) PROVE stack[k + 1] # mod
    <3>1. k + 1 \in 1..Len(stack) /\ k + 1 # 1 /\ 1 \in 1..Len(stack)
      BY <1>2
    <3> QED
      BY <3>1 DEF StackOK
  <2> HIDE DEF mod
  <2>3. \A k \in 1..(Len(stack) - 1) : dependencies'[stack[k + 1]] = dependencies[stack[k + 1]]
    BY <1>1, <2>1, <2>2
  <2>4. /\ \A k \in 1..Len(stack) : status[stack[k]] = "DOING" /\ stack[k] \in Listed'
        /\ stack # <<>> => /\ phase' = "sort" /\ pos' <= Len(modules')
                           /\ stack[Len(stack)] = modules'[pos'] /\ Wanted(modules[pos])'
    BY <2>1 DEF StackOK, Listed, Wanted
  <2>5. \A k \in 1..(Len(stack) - 1) : /\ dependencies'[stack[k + 1]] # <<>>
                                       /\ Head(dependencies'[stack[k + 1]]) = stack[k]
    BY <2>3 DEF StackOK
  <2> QED
    BY <2>1, <2>4, <2>5 DEF StackOK
<1>7. CASE Breaks \/ Loads
  <2> DEFINE t == stack'
  <2>1. /\ stack # <<>> /\ phase = "sort" /\ stack' = Tail(stack)
        /\ UNCHANGED <<startpoint, phase, modules, pos, dependencies>>
        /\ \A f \in Files : f # stack[1] => status'[f] = status[f]
    BY <1>1, <1>7 DEF Breaks, Loads
  <2>2. /\ Len(t) = Len(stack) - 1 /\ Len(stack) \in Nat \ {0}
        /\ \A k \in 1..Len(t) : t[k] = stack[k + 1]
        /\ t # <<>> => Len(stack) # 1
    BY <1>1, <2>1, Popped
  <2> HIDE DEF t
  <2>3. \A k \in 1..Len(t) : /\ k + 1 \in 1..Len(stack) /\ stack[k + 1] # stack[1]
                             /\ stack[k + 1] \in Files
    <3>1. \A k \in 1..Len(t) : k + 1 \in 1..Len(stack) /\ k + 1 # 1 /\ 1 \in 1..Len(stack)
      BY <2>2
    <3> QED
      BY <1>2, <3>1 DEF StackOK
  <2>4. Listed' = Listed
    BY <2>1 DEF Listed
  <2>5. \A k \in 1..Len(t) : status'[t[k]] = "DOING" /\ t[k] \in Listed'
    BY <2>1, <2>2, <2>3, <2>4 DEF StackOK
  <2>6. \A j, k \in 1..Len(t) : t[j] = t[k] => j = k
    <3> SUFFICES ASSUME NEW j \in 1..Len(t), NEW k \in 1..Len(t), t[j] = t[k] PROVE j = k
      OBVIOUS
    <3>1. j + 1 = k + 1
      BY <2>2, <2>3 DEF StackOK
    <3> QED
      BY <2>2, <3>1
  <2>7. \A k \in 1..(Len(t) - 1) : dependencies[t[k + 1]] # <<>> /\ Head(dependencies[t[k + 1]]) = t[k]
    <3> SUFFICES ASSUME NEW k \in 1..(Len(t) - 1)
                 PROVE  dependencies[t[k + 1]] # <<>> /\ Head(dependencies[t[k + 1]]) = t[k]
      OBVIOUS
    <3>1. k \in 1..Len(t) /\ k + 1 \in 1..Len(t) /\ k + 1 \in 1..(Len(stack) - 1)
      BY <2>2
    <3> QED
      BY <2>2, <3>1 DEF StackOK
  <2>8. t # <<>> => /\ pos' <= Len(modules') /\ t[Len(t)] = modules'[pos']
                    /\ Wanted(modules[pos])'
    <3> SUFFICES ASSUME t # <<>>
                 PROVE  /\ pos' <= Len(modules') /\ t[Len(t)] = modules'[pos']
                        /\ Wanted(modules[pos])'
      OBVIOUS
    <3>1. Len(t) \in 1..Len(t) /\ Len(t) + 1 = Len(stack)
      BY <2>2
    <3>2. t[Len(t)] = stack[Len(stack)]
      BY <2>2, <3>1
    <3> QED
      BY <2>1, <3>2 DEF StackOK, Wanted
  <2> QED
    BY <2>1, <2>5, <2>6, <2>7, <2>8 DEF StackOK, t
<1>8. CASE Passes \/ Panics
  <2>1. stack = <<>> /\ UNCHANGED <<stack, status>>
    BY <1>8 DEF Passes, Panics
  <2>2. Len(stack) = 0
    BY <1>1, <2>1, EmptySeq
  <2> QED
    BY <2>1, <2>2 DEF StackOK
<1> QED
  BY <1>4, <1>5, <1>6, <1>7, <1>8, TraversalIs

\* Once a cycle is found, the activations return and the outer loop panics.
LEMMA DoomedSteps ==
  ASSUME TypeOK, DoomOK, Traversal, Doomed # {}
  PROVE  Breaks \/ Panics
<1>1. Calls \/ Drops \/ Breaks \/ Loads \/ Passes \/ Starts \/ Panics
  BY TraversalIs
<1>2. phase = "sort"
  BY Frames, <1>1 DEF Calls, Drops, Breaks, Loads, Passes, Starts, Panics
<1>3. CASE stack = <<>> /\ Wanted(modules[pos]) /\ status[modules[pos]] = "DOING"
  BY <1>1, <1>3 DEF Calls, Drops, Loads, Passes, Starts
<1>4. CASE stack # <<>> /\ dependencies[Head(stack)] # <<>>
             /\ status[Head(dependencies[Head(stack)])] = "DOING"
  <2>1. Head(stack) = stack[1]
    BY <1>4, Popped DEF TypeOK
  <2> QED
    BY <1>1, <1>4, <2>1 DEF Calls, Drops, Loads, Passes, Starts, Panics, Awaited
<1> QED
  BY <1>2, <1>3, <1>4 DEF DoomOK

\* The activation that returns leaves its module DOING.
LEMMA Breaking ==
  ASSUME TypeOK, StackOK, Breaks
  PROVE  Doomed' = Doomed \cup {stack[1]} /\ stack[1] \in Files
<1>1. stack \in Seq(Files) /\ stack # <<>> /\ stack' = Tail(stack) /\ UNCHANGED status
  BY DEF TypeOK, Breaks
<1>2. /\ Tail(stack) \in Seq(Files) /\ Len(Tail(stack)) = Len(stack) - 1
      /\ Len(stack) \in Nat \ {0} /\ stack[1] \in Files
      /\ \A k \in 1..Len(Tail(stack)) : Tail(stack)[k] = stack[k + 1]
      /\ RangeOf(stack) = RangeOf(Tail(stack)) \cup {stack[1]}
  BY <1>1, Popped
<1>3. status[stack[1]] = "DOING"
  BY <1>2 DEF StackOK
<1>4. stack[1] \notin RangeOf(Tail(stack))
  <2> SUFFICES ASSUME stack[1] \in RangeOf(Tail(stack)) PROVE FALSE
    OBVIOUS
  <2>1. DOMAIN Tail(stack) = 1..Len(Tail(stack))
    BY <1>2, LenProperties
  <2>2. PICK k \in 1..Len(Tail(stack)) : Tail(stack)[k] = stack[1]
    BY <2>1 DEF RangeOf
  <2>3. k + 1 \in 1..Len(stack) /\ k + 1 # 1 /\ 1 \in 1..Len(stack) /\ stack[k + 1] = stack[1]
    BY <1>2, <2>2
  <2> QED
    BY <2>3 DEF StackOK
<1> QED
  BY <1>1, <1>2, <1>3, <1>4 DEF Doomed

\* Nothing else leaves a module DOING that is not on the stack.
LEMMA NotBreaking ==
  ASSUME TypeOK, StackOK, DepsOK, Next, Doomed = {}
  PROVE  Breaks \/ Doomed' = {}
<1>1. stack \in Seq(Files) /\ status \in [Files -> {"NONE", "DOING", "DONE"}]
  BY DEF TypeOK
<1>2. CASE UNCHANGED <<status, stack>>
  BY <1>2 DEF Doomed
<1>3. CASE Calls \/ Starts
  <2>1. PICK f \in Files : status' = [status EXCEPT ![f] = "DOING"] /\ stack' = <<f>> \o stack
    <3>1. CASE Calls
      BY <3>1, TopIs DEF Calls
    <3>2. CASE Starts
      <4>1. modules \in Seq(Files) /\ pos \in 1..Len(modules)
        BY <3>2 DEF TypeOK, Starts
      <4>2. modules[pos] \in Files
        BY <4>1, ElementOfSeq
      <4> QED
        BY <3>2, <4>2 DEF Starts
    <3> QED
      BY <1>3, <3>1, <3>2
  <2>2. RangeOf(<<f>> \o stack) = RangeOf(stack) \cup {f}
    BY <1>1, Pushed
  <2>3. RangeOf(stack') = RangeOf(stack) \cup {f}
    BY <2>1, <2>2
  <2>4. \A g \in Files : g # f => status'[g] = status[g]
    BY <1>1, <2>1
  <2> QED
    BY <2>3, <2>4 DEF Doomed
<1>4. CASE Loads
  <2>1. /\ stack # <<>> /\ stack[1] \in Files /\ stack' = Tail(stack)
        /\ status' = [status EXCEPT ![stack[1]] = "DONE"]
    BY <1>4, TopIs DEF Loads
  <2>2. RangeOf(stack) = RangeOf(Tail(stack)) \cup {stack[1]}
    BY <1>1, <2>1, Popped
  <2> QED
    BY <1>1, <2>1, <2>2 DEF Doomed
<1>5. CASE Drops \/ Passes \/ Panics
  BY <1>2, <1>5 DEF Drops, Passes, Panics
<1> QED
  BY <1>2, <1>3, <1>4, <1>5, Frames, TraversalIs

\* A cycle that was found ends the traversal.
LEMMA DoomKept ==
  ASSUME TypeOK, EarlyOK, DepsOK, StackOK, DoomOK, Next
  PROVE  DoomOK'
<1>1. stack \in Seq(Files) /\ Len(modules) \in Nat /\ pos \in Nat
  BY LenProperties DEF TypeOK
<1>2. CASE Doomed' = {}
  BY <1>2 DEF DoomOK
<1>3. CASE Breaks
  <2> DEFINE t == stack'
  <2>1. /\ phase = "sort" /\ stack # <<>> /\ dependencies[stack[1]] # <<>>
        /\ status[Awaited] = "DOING" /\ stack' = Tail(stack)
        /\ UNCHANGED <<startpoint, phase, modules, pos, dependencies, status>>
    BY <1>3 DEF Breaks
  <2>2. /\ t \in Seq(Files) /\ Len(t) = Len(stack) - 1 /\ Len(stack) \in Nat \ {0}
        /\ \A k \in 1..Len(t) : t[k] = stack[k + 1]
        /\ t # <<>> <=> Len(stack) # 1
    BY <1>1, <2>1, Popped
  <2> HIDE DEF t
  <2>3. stack[1] \in Listed /\ status[stack[1]] = "DOING"
    BY <2>1, TopIs
  <2>4. Listed' = Listed
    BY <2>1 DEF Listed
  <2>5. \A f \in Doomed' : /\ f \in Listed' /\ dependencies'[f] # <<>>
                           /\ status'[Head(dependencies'[f])] = "DOING"
    BY <1>3, <2>1, <2>3, <2>4, Breaking DEF DoomOK, Awaited
  <2>6. CASE t = <<>>
    <3>1. Len(stack) = 1
      BY <2>2, <2>6
    <3>2. pos <= Len(modules) /\ Wanted(modules[pos]) /\ stack[1] = modules[pos]
      BY <2>1, <3>1 DEF StackOK
    <3> QED
      BY <2>1, <2>3, <2>5, <2>6, <3>2 DEF DoomOK, Wanted, t
  <2>7. CASE t # <<>>
    <3>1. 1 \in 1..Len(t) /\ 1 \in 1..(Len(stack) - 1) /\ 1 + 1 = 2 /\ t[1] = stack[2]
      BY <2>2, <2>7
    <3>2. dependencies[stack[2]] # <<>> /\ Head(dependencies[stack[2]]) = stack[1]
      BY <3>1 DEF StackOK
    <3>3. Head(t) = stack[2]
      BY <2>2, <2>7, <3>1, Popped
    <3> QED
      BY <2>1, <2>3, <2>5, <2>7, <3>2, <3>3 DEF DoomOK, t
  <2> QED
    BY <2>6, <2>7
<1>4. CASE Doomed # {} /\ Panics
  <2>1. /\ phase' = "panic" /\ Doomed' = Doomed /\ Listed' = Listed
        /\ UNCHANGED <<status, dependencies>>
    BY <1>4 DEF Panics, Doomed, Listed
  <2> QED
    BY <2>1 DEF DoomOK
<1>5. CASE Doomed # {} /\ ~Traversal
  <2> SUFFICES FALSE
    OBVIOUS
  <2>1. \/ phase = "panic"
        \/ phase = "sort" /\ pos <= Len(modules)
    BY <1>5 DEF DoomOK, StackOK
  <2> QED
    BY <1>1, <1>5, <2>1 DEF Next, Traversal, Discover, init_symtable, analysis_module, LoopEnd,
                            check_dependency
<1> QED
  BY <1>2, <1>3, <1>4, <1>5, DoomedSteps, NotBreaking

\* The outer loop passes a wanted module only when it is loaded.
LEMMA VisitedKept ==
  ASSUME TypeOK, VisitedOK, Next
  PROVE  VisitedOK'
<1>1. Len(modules) \in Nat /\ pos \in Nat \ {0} /\ status \in [Files -> {"NONE", "DOING", "DONE"}]
  BY LenProperties DEF TypeOK
<1>2. CASE Traversal
  <2>1. phase = "sort" /\ phase' \in {"sort", "panic"} /\ UNCHANGED <<modules, startpoint>>
    BY <1>2, Frames DEF Discover
  <2>2. \A i \in 1..Len(modules) : status[modules[i]] = "DONE" => status'[modules[i]] = "DONE"
    <3>1. ASSUME NEW f, status[f] = "NONE" \/ status' = [status EXCEPT ![f] = "DONE"],
                 status' = [status EXCEPT ![f] = "DOING"] \/ status' = [status EXCEPT ![f] = "DONE"]
          PROVE  \A g \in Files : status[g] = "DONE" => status'[g] = "DONE"
      BY <1>1, <3>1
    <3>2. \A i \in 1..Len(modules) : modules[i] \in Files
      BY ElementOfSeq DEF TypeOK
    <3> QED
      BY <1>2, <3>2, <3>1, TraversalIs DEF Calls, Drops, Breaks, Loads, Passes, Starts, Panics
  <2>3. \A i \in 1..Len(modules) :
          i < pos' /\ Wanted(modules[i]) => i < pos \/ status[modules[i]] = "DONE"
    BY <1>1, <1>2, TraversalIs DEF Calls, Drops, Breaks, Loads, Passes, Starts, Panics
  <2> QED
    BY <2>1, <2>2, <2>3 DEF VisitedOK, Wanted
<1>3. CASE LoopEnd("check", "sort")
  BY <1>1, <1>3 DEF LoopEnd, VisitedOK, files
<1>4. CASE LoopEnd("sort", "done")
  <2>1. /\ phase = "sort" /\ pos > Len(modules) /\ phase' = "done"
        /\ UNCHANGED <<startpoint, modules, status>>
    BY <1>4 DEF LoopEnd, files
  <2> QED
    BY <1>1, <2>1 DEF VisitedOK, Wanted
<1>5. CASE Discover \/ init_symtable \/ analysis_module \/ LoopEnd("analysis", "check")
           \/ check_dependency
  <2>1. phase' \notin {"sort", "done"}
    BY <1>5 DEF Discover, init_symtable, analysis_module, LoopEnd, check_dependency
  <2> QED
    BY <2>1 DEF VisitedOK
<1> QED
  BY <1>2, <1>3, <1>4, <1>5 DEF Next, Traversal

\* What makes the i-th module that is loaded necessary.
NeededAt(i) == \/ Wanted(loaded[i])
               \/ \E j \in (i + 1)..Len(loaded) : loaded[i] \in Providers(loaded[j])
               \/ \E k \in 1..Len(stack) : loaded[i] \in Providers(stack[k])

\* Only dependencies of a module under way are loaded besides the wanted modules.
LEMMA NeededKept ==
  ASSUME TypeOK, EarlyOK, DepsOK, StackOK, DoomOK, NeededOK, Next
  PROVE  NeededOK'
<1>1. /\ stack \in Seq(Files) /\ loaded \in Seq(Files) /\ modules \in Seq(Files)
      /\ Len(stack) \in Nat /\ Len(loaded) \in Nat /\ Len(modules) \in Nat /\ pos \in Nat
  BY LenProperties DEF TypeOK
<1> SUFFICES ASSUME Doomed' = {}, phase' \in {"sort", "done"}
             PROVE  \A i \in 1..Len(loaded') : NeededAt(i)'
  BY DEF NeededOK, NeededAt
<1>2. ~Breaks
  BY Breaking
<1>3. CASE LoopEnd("check", "sort")
  <2>1. phase = "check" /\ UNCHANGED loaded
    BY <1>3 DEF LoopEnd
  <2>2. Len(loaded') = 0
    BY <1>1, <2>1, EmptySeq DEF EarlyOK
  <2> QED
    BY <2>2
<1>4. CASE ~Traversal /\ ~LoopEnd("check", "sort")
  <2>1. LoopEnd("sort", "done")
    BY <1>4 DEF Next, Traversal, Discover, init_symtable, analysis_module, LoopEnd, check_dependency
  <2>2. phase = "sort" /\ UNCHANGED <<elf, startpoint, modules, status, stack, loaded>>
    BY <2>1 DEF LoopEnd, files
  <2>3. Doomed = {}
    BY <2>2 DEF Doomed
  <2> QED
    BY <2>2, <2>3, ProvidersStay DEF NeededOK, NeededAt, Wanted
<1>5. CASE Traversal
  <2>1. Doomed = {}
    <3>1. CASE Panics
      BY <3>1 DEF Panics, Doomed
    <3> QED
      BY <1>2, <1>5, <3>1, DoomedSteps
  <2>2. phase = "sort" /\ UNCHANGED <<elf, startpoint, modules>>
    BY <1>5, Frames DEF Discover
  <2>3. \A i \in 1..Len(loaded) : NeededAt(i)
    BY <2>1, <2>2 DEF NeededOK, NeededAt
  <2>4. CASE Calls \/ Starts
    <3>1. PICK f \in Files : stack' = <<f>> \o stack
      <4>1. CASE Calls
        BY <4>1, TopIs DEF Calls
      <4>2. CASE Starts
        <5>1. pos \in 1..Len(modules)
          BY <4>2 DEF Starts
        <5>2. modules[pos] \in Files
          BY <1>1, <5>1, ElementOfSeq
        <5> QED
          BY <4>2, <5>2 DEF Starts
      <4> QED
        BY <2>4, <4>1, <4>2
    <3>2. /\ Len(<<f>> \o stack) = Len(stack) + 1
          /\ \A k \in 1..Len(stack) : (<<f>> \o stack)[k + 1] = stack[k]
      BY <1>1, Pushed
    <3>3. \A k \in 1..Len(stack) : k + 1 \in 1..Len(stack') /\ stack'[k + 1] = stack[k]
      BY <1>1, <3>1, <3>2
    <3>4. UNCHANGED loaded
      BY <2>4 DEF Calls, Starts
    <3> SUFFICES ASSUME NEW i \in 1..Len(loaded) PROVE NeededAt(i)'
      BY <3>4
    <3>5. NeededAt(i)
      BY <2>3
    <3> QED
      BY <2>2, <3>3, <3>4, <3>5, ProvidersStay DEF NeededAt, Wanted
  <2>5. CASE Drops \/ Passes \/ Panics
    <3>1. UNCHANGED <<stack, loaded>>
      BY <2>5 DEF Drops, Passes, Panics
    <3> QED
      BY <2>2, <2>3, <3>1, ProvidersStay DEF NeededAt, Wanted
  <2>6. CASE Loads
    <3> DEFINE mod == stack[1]
               L   == Len(loaded)
    <3>1. /\ stack # <<>> /\ loaded' = Append(loaded, mod) /\ stack' = Tail(stack)
          /\ mod \in Files
      BY <2>6, TopIs DEF Loads
    <3>2. /\ Len(Append(loaded, mod)) = L + 1
          /\ \A k \in 1..L : Append(loaded, mod)[k] = loaded[k]
          /\ Append(loaded, mod)[L + 1] = mod
      BY <1>1, <3>1, Appended
    <3>3. Len(loaded') = L + 1 /\ loaded'[L + 1] = mod /\ \A k \in 1..L : loaded'[k] = loaded[k]
      BY <3>1, <3>2
    <3>4. /\ Len(Tail(stack)) = Len(stack) - 1 /\ Len(stack) \in Nat \ {0}
          /\ \A k \in 1..Len(Tail(stack)) : Tail(stack)[k] = stack[k + 1]
      BY <1>1, <3>1, Popped
    <3>5. Len(stack') = Len(stack) - 1 /\ \A k \in 1..Len(stack') : stack'[k] = stack[k + 1]
      BY <3>1, <3>4
    <3> HIDE DEF mod, L
    <3>6. L \in Nat /\ L = Len(loaded) /\ mod = stack[1]
      BY <1>1 DEF L, mod
    <3>7. ASSUME NEW i \in 1..L PROVE NeededAt(i)'
      <4>1. NeededAt(i)
        BY <2>3, <3>6
      <4>2. CASE Wanted(loaded[i])
        BY <2>2, <3>3, <4>2 DEF NeededAt, Wanted
      <4>3. ASSUME NEW j \in (i + 1)..L, loaded[i] \in Providers(loaded[j]) PROVE NeededAt(i)'
        <5>1. j \in 1..L /\ j \in (i + 1)..Len(loaded')
          BY <3>3, <3>6
        <5>2. loaded'[i] \in Providers(loaded'[j])
          BY <3>3, <4>3, <5>1
        <5>3. loaded'[i] \in Providers(loaded[j])'
          BY <2>2, <5>2 DEF Providers, Exporters
        <5> QED
          BY <5>1, <5>3 DEF NeededAt
      <4>4. ASSUME loaded[i] \in Providers(mod) PROVE NeededAt(i)'
        <5>1. PICK j \in (i + 1)..Len(loaded') : loaded'[j] = mod
          BY <3>3, <3>6
        <5>2. loaded'[i] \in Providers(loaded[j])'
          BY <2>2, <3>3, <4>4, <5>1 DEF Providers, Exporters
        <5> QED
          BY <5>1, <5>2 DEF NeededAt
      <4>5. ASSUME NEW k \in 1..Len(stack), k # 1, loaded[i] \in Providers(stack[k])
            PROVE  NeededAt(i)'
        <5>1. k - 1 \in 1..Len(stack') /\ (k - 1) + 1 = k
          BY <3>4, <3>5, <4>5
        <5>2. PICK h \in 1..Len(stack') : stack'[h] = stack[k]
          BY <3>5, <5>1
        <5>3. loaded'[i] \in Providers(stack[h])'
          BY <2>2, <3>3, <4>5, <5>2 DEF Providers, Exporters
        <5> QED
          BY <5>2, <5>3 DEF NeededAt
      <4> QED
        BY <3>6, <4>1, <4>2, <4>3, <4>4, <4>5 DEF NeededAt
    <3>8. ASSUME NEW i, i = L + 1 PROVE NeededAt(i)'
      <4>1. loaded'[i] = mod
        BY <3>3, <3>8
      <4>2. CASE Len(stack) = 1
        <5>1. Wanted(mod)
          BY <3>1, <3>6, <4>2 DEF StackOK
        <5> QED
          BY <2>2, <4>1, <5>1 DEF NeededAt, Wanted
      <4>3. CASE Len(stack) # 1
        <5>1. 1 \in 1..(Len(stack) - 1) /\ 1 + 1 = 2 /\ 2 \in 1..Len(stack) /\ 1 \in 1..Len(stack')
          BY <3>4, <3>5, <4>3
        <5>2. stack[2] \in Files /\ stack'[1] = stack[2]
          BY <1>1, <3>5, <5>1, ElementOfSeq
        <5>3. dependencies[stack[2]] # <<>> /\ Head(dependencies[stack[2]]) = mod
          BY <3>6, <5>1 DEF StackOK
        <5>4. dependencies[stack[2]] \in Seq(Files)
          BY <5>2 DEF TypeOK
        <5>5. mod \in RangeOf(dependencies[stack[2]])
          BY <5>3, <5>4, RangeFacts
        <5>6. mod \in Providers(stack[2])
          BY <5>2, <5>5 DEF DepsOK
        <5>7. loaded'[i] \in Providers(stack[1])'
          BY <2>2, <4>1, <5>2, <5>6 DEF Providers, Exporters
        <5> QED
          BY <5>1, <5>7 DEF NeededAt
      <4> QED
        BY <4>2, <4>3
    <3> QED
      BY <3>3, <3>6, <3>7, <3>8
  <2> QED
    BY <1>2, <1>5, <2>4, <2>5, <2>6, TraversalIs
<1> QED
  BY <1>3, <1>4, <1>5

-----------------------------------------------------------------------------
(* The properties.                                                         *)

\* When no dependency is left, every provider was handed over before.
LEMMA ProvidersFirst ==
  ASSUME TypeOK, DepsOK, CoverOK, DoneOK, StackOK, LoadedAfterProviders, Next
  PROVE  LoadedAfterProviders'
<1>1. loaded \in Seq(Files) /\ DOMAIN loaded = 1..Len(loaded) /\ Len(loaded) \in Nat
  BY LenProperties DEF TypeOK
<1>2. CASE UNCHANGED loaded
  BY <1>2, Frames DEF LoadedAfterProviders
<1>3. CASE Loads
  <2> DEFINE mod == stack[1]
             L   == Len(loaded)
  <2>1. /\ mod \in Files /\ mod \in Listed /\ dependencies[mod] = <<>> /\ phase = "sort"
        /\ loaded' = Append(loaded, mod) /\ UNCHANGED elf
    BY <1>3, TopIs DEF Loads
  <2> HIDE DEF mod
  <2>2. /\ Append(loaded, mod) \in Seq(Files) /\ Len(Append(loaded, mod)) = L + 1
        /\ \A k \in 1..L : Append(loaded, mod)[k] = loaded[k]
        /\ Append(loaded, mod)[L + 1] = mod
    BY <1>1, <2>1, Appended
  <2>3. /\ loaded' \in Seq(Files) /\ Len(loaded') = L + 1 /\ loaded'[L + 1] = mod
        /\ \A k \in 1..L : loaded'[k] = loaded[k]
    BY <2>1, <2>2
  <2>4. DOMAIN loaded' = 1..(L + 1)
    BY <2>3, LenProperties
  <2> HIDE DEF L
  <2>5. L \in Nat /\ DOMAIN loaded = 1..L
    BY <1>1 DEF L
  <2>6. ASSUME NEW i \in 1..L, NEW s \in RangeOf(elf.undefs[loaded[i]])
        PROVE  \/ s \in RangeOf(KernelSymbols)
               \/ \E j \in 1..(i - 1) : s \in RangeOf(elf.exports[loaded'[j]])
    <3>1. \/ s \in RangeOf(KernelSymbols)
          \/ \E j \in 1..(i - 1) : s \in RangeOf(elf.exports[loaded[j]])
      BY <2>5 DEF LoadedAfterProviders
    <3>2. \A j \in 1..(i - 1) : loaded'[j] = loaded[j]
      BY <2>3, <2>5
    <3> QED
      BY <3>1, <3>2
  <2>7. ASSUME NEW s \in RangeOf(elf.undefs[mod])
        PROVE  \/ s \in RangeOf(KernelSymbols)
               \/ \E j \in 1..L : s \in RangeOf(elf.exports[loaded'[j]])
    <3>1. PICK i \in 1..Len(modules) : modules[i] = mod
      BY <2>1, LenProperties DEF TypeOK, Listed, RangeOf
    <3>2. Covered(mod, {})
      BY <2>1, <3>1 DEF CoverOK
    <3>3. RangeOf(dependencies[mod]) = {}
      BY <2>1 DEF RangeOf
    <3>4. \/ s \in RangeOf(KernelSymbols)
          \/ \E d \in Files : s \in RangeOf(elf.exports[d]) /\ status[d] = "DONE"
      BY <3>2, <3>3 DEF Covered
    <3>5. ASSUME NEW d \in Files, s \in RangeOf(elf.exports[d]), status[d] = "DONE"
          PROVE  \E j \in 1..L : s \in RangeOf(elf.exports[loaded'[j]])
      <4>1. d \in RangeOf(loaded)
        BY <3>5 DEF DoneOK
      <4>2. PICK j \in 1..L : loaded[j] = d
        BY <2>5, <4>1 DEF RangeOf
      <4> QED
        BY <2>3, <3>5, <4>2
    <3> QED
      BY <3>4, <3>5
  <2>8. ASSUME NEW i \in 1..(L + 1), NEW s \in RangeOf(elf.undefs[loaded'[i]])
        PROVE  \/ s \in RangeOf(KernelSymbols)
               \/ \E j \in 1..(i - 1) : s \in RangeOf(elf.exports[loaded'[j]])
    <3>1. CASE i \in 1..L
      BY <2>3, <2>6, <3>1
    <3>2. CASE i = L + 1
      <4>1. i - 1 = L
        BY <2>5, <3>2
      <4> QED
        BY <2>3, <2>7, <3>2, <4>1
    <3> QED
      BY <2>5, <3>1, <3>2
  <2> QED
    BY <2>1, <2>4, <2>8 DEF LoadedAfterProviders
<1> QED
  BY <1>2, <1>3, Frames, TraversalIs DEF Calls, Drops, Breaks, Passes, Starts, Panics

\* A panic of the outer loop: the modules that are still DOING need each other.
LEMMA CycleCause ==
  ASSUME TypeOK, DepsOK, DoomOK, Panics
  PROVE  \E S \in (SUBSET RangeOf(modules)) \ {{}} : \A m \in S : Providers(m) \cap S # {}
<1>1. /\ stack = <<>> /\ pos \in 1..Len(modules) /\ status[modules[pos]] = "DOING"
      /\ modules \in Seq(Files)
  BY DEF Panics, TypeOK
<1>2. RangeOf(stack) = {}
  BY <1>1 DEF RangeOf
<1>3. modules[pos] \in Files
  BY <1>1, ElementOfSeq
<1>4. Doomed # {}
  BY <1>1, <1>2, <1>3 DEF Doomed
<1>5. Doomed \in SUBSET RangeOf(modules)
  BY DEF DoomOK, Listed
<1>6. ASSUME NEW m \in Doomed PROVE Providers(m) \cap Doomed # {}
  <2>1. m \in Files /\ dependencies[m] # <<>> /\ status[Head(dependencies[m])] = "DOING"
    BY <1>6 DEF DoomOK, Doomed
  <2>2. dependencies[m] \in Seq(Files)
    BY <2>1 DEF TypeOK
  <2>3. Head(dependencies[m]) \in RangeOf(dependencies[m]) /\ Head(dependencies[m]) \in Files
    BY <2>1, <2>2, RangeFacts
  <2>4. Head(dependencies[m]) \in Providers(m)
    BY <2>1, <2>3 DEF DepsOK
  <2>5. Head(dependencies[m]) \in Doomed
    BY <1>2, <2>1, <2>3 DEF Doomed
  <2> QED
    BY <2>4, <2>5
<1> QED
  BY <1>4, <1>5, <1>6

\* No other step panics.
LEMMA CauseKept ==
  ASSUME TypeOK, ListedOnce, TableOK, CoverOK, DepsOK, DoomOK, PanicHasCause, Next
  PROVE  PanicHasCause'
<1>1. CASE Discover
  <2>1. phase' = "panic" => ~(Found("startup") /\ Found("map") /\ ~\E f \in Files : CrashesOn(f))
    BY <1>1 DEF Discover
  <2>2. UNCHANGED startpoint
    BY <1>1 DEF Discover, files
  <2> QED
    BY <2>1, <2>2 DEF PanicHasCause, Found, CrashesOn, check_module, HasPrefix
<1>2. CASE check_dependency
  <2>1. CASE phase' = "panic" /\ phase # "panic"
    <3>1. pos \in 1..Len(modules) /\ ~Resolvable(modules[pos]) /\ UNCHANGED <<elf, modules>>
      BY <1>2, <2>1, Checked DEF Resolves
    <3>2. PICK i \in 1..Len(modules) : ~Resolvable(modules[i])
      BY <3>1
    <3>3. DOMAIN modules = 1..Len(modules)
      BY LenProperties DEF TypeOK
    <3>4. \E j \in DOMAIN modules' : ~Resolvable(modules[j])'
      BY <3>1, <3>2, <3>3 DEF Resolvable, Exporters
    <3> QED
      BY <3>4 DEF PanicHasCause
  <2> QED
    BY <1>2, <2>1 DEF check_dependency, PanicHasCause
<1>3. CASE Traversal
  <2>1. CASE Panics
    <3>1. PICK S \in (SUBSET RangeOf(modules)) \ {{}} : \A m \in S : Providers(m) \cap S # {}
      BY <2>1, CycleCause
    <3>2. UNCHANGED <<elf, modules>>
      BY <2>1 DEF Panics
    <3>3. S \in (SUBSET RangeOf(modules')) \ {{}} /\ \A m \in S : Providers(m)' \cap S # {}
      BY <3>1, <3>2, ProvidersStay
    <3> QED
      BY <3>3 DEF PanicHasCause
  <2>2. CASE phase' # "panic"
    BY <2>2 DEF PanicHasCause
  <2> QED
    BY <1>3, <2>1, <2>2, TraversalIs DEF Calls, Drops, Breaks, Loads, Passes, Starts
<1>4. CASE phase' # "panic"
  BY <1>4 DEF PanicHasCause
<1> QED
  BY <1>1, <1>2, <1>3, <1>4 DEF Next, Traversal, init_symtable, analysis_module, LoopEnd

-----------------------------------------------------------------------------
(* The theorems.                                                           *)

\* The invariant holds at the start,
LEMMA Start == Init => IInv
<1> SUFFICES ASSUME Init PROVE IInv
  OBVIOUS
<1>1. /\ elf \in [exports : [Files -> Seq(Symbols)], undefs : [Files -> Seq(Symbols)]]
      /\ phase = "discover" /\ modules = <<>> /\ pos = 1 /\ symbols = <<>>
      /\ undef_syms = [f \in Files |-> <<>>] /\ dependencies = [f \in Files |-> <<>>]
      /\ status = [f \in Files |-> "NONE"] /\ stack = <<>> /\ loaded = <<>>
  BY ModuleSortAssumption DEF Init
<1>2. RangeOf(<<>>) = {} /\ Len(<<>>) = 0 /\ DOMAIN <<>> = {}
  BY DEF RangeOf
<1>3. TypeOK
  BY <1>1 DEF TypeOK
<1>4. EarlyOK /\ ListedOnce /\ TableOK /\ CoverOK /\ VisitedOK /\ NeededOK /\ PanicHasCause
  BY <1>1, <1>2 DEF EarlyOK, ListedOnce, TableOK, CoverOK, VisitedOK, NeededOK, PanicHasCause
<1>5. DepsOK /\ DoneOK /\ StackOK /\ LoadedAfterProviders
  BY <1>1, <1>2 DEF DepsOK, DoneOK, StackOK, LoadedAfterProviders, LoadedOnce
<1>6. DoomOK
  BY <1>1 DEF DoomOK, Doomed
<1> QED
  BY <1>3, <1>4, <1>5, <1>6 DEF IInv

\* and every step keeps it.
LEMMA Step == IInv /\ [Next]_vars => IInv'
<1> SUFFICES ASSUME IInv, [Next]_vars PROVE IInv'
  OBVIOUS
<1> USE DEF IInv
<1>1. CASE Next
  <2>1. TypeOK' /\ EarlyOK' /\ ListedOnce' /\ TableOK'
    BY <1>1, TypesKept, EarlyKept, TableKept
  <2>2. DepsOK' /\ CoverOK' /\ DoneOK' /\ StackOK'
    BY <1>1, DepsKept, CoverKept, DoneKept, StackKept
  <2>3. DoomOK' /\ VisitedOK' /\ NeededOK'
    BY <1>1, DoomKept, VisitedKept, NeededKept
  <2>4. LoadedAfterProviders' /\ PanicHasCause'
    BY <1>1, ProvidersFirst, CauseKept
  <2> QED
    BY <2>1, <2>2, <2>3, <2>4
<1>2. CASE UNCHANGED vars
  <2> USE <1>2 DEF vars
  <2>1. TypeOK'
    BY DEF TypeOK
  <2>2. EarlyOK' /\ ListedOnce'
    BY DEF EarlyOK, ListedOnce
  <2>3. DepsOK' /\ VisitedOK'
    BY ProvidersStay DEF DepsOK, VisitedOK, Wanted
  <2>4. TableOK'
    BY DEF TableOK, Analysed, Table, NoStranger, KernelThere, ExportsThere, InOrder, Kernel, ExportOf
  <2>5. CoverOK' /\ DoneOK'
    BY DEF CoverOK, Covered, DoneOK, LoadedOnce
  <2>6. StackOK' /\ DoomOK'
    BY DEF StackOK, DoomOK, Doomed, Listed, Wanted
  <2>7. NeededOK'
    BY ProvidersStay DEF NeededOK, Doomed, Wanted
  <2>8. LoadedAfterProviders'
    BY DEF LoadedAfterProviders
  <2>9. PanicHasCause'
    BY ProvidersStay DEF PanicHasCause, Found, CrashesOn, check_module, HasPrefix, Resolvable, Exporters
  <2> QED
    BY <2>1, <2>2, <2>3, <2>4, <2>5, <2>6, <2>7, <2>8, <2>9
<1> QED
  BY <1>1, <1>2

\* The tables, the stack and the statuses of ModuleSort stay consistent: what the
\* invariant says holds in every state of sort_modules.
THEOREM SortInvariance == Spec => []IInv
<1>1. Init => IInv
  BY Start
<1>2. IInv /\ [Next]_vars => IInv'
  BY Step
<1> QED
  BY <1>1, <1>2, PTL DEF Spec

\* And in every state of the start-up, which runs sort_modules as one of its parts.
THEOREM Invariance == BootSpec => []IInv
<1>1. BootInit => IInv
  BY Start DEF BootInit
<1>2. [BootNext]_bootVars => [Next]_vars
  <2> SUFFICES ASSUME [BootNext]_bootVars PROVE [Next]_vars
    OBVIOUS
  <2>1. CASE SortModules
    BY <2>1 DEF SortModules
  <2>2. CASE RomAddFile \/ FlashAddStartup
    BY <2>2 DEF RomAddFile, FlashAddStartup, Panic
  <2>3. CASE RelocateKernel \/ RelocateSbi
    BY <2>3 DEF RelocateKernel, RelocateSbi, _relocate
  <2>4. CASE CopyCell
    BY <2>4 DEF CopyCell, Panic
  <2>5. CASE UNCHANGED bootVars
    BY <2>5 DEF bootVars
  <2> QED
    BY <2>1, <2>2, <2>3, <2>4, <2>5 DEF BootNext
<1>3. IInv /\ [Next]_vars => IInv'
  BY Step
<1> QED
  BY <1>1, <1>2, <1>3, PTL DEF BootSpec

\* A module handed to the flash finds every symbol it misses in startup.bin or in
\* a module handed over before it (traverse_dependency, check_dependency).
THEOREM ProvidersBefore == BootSpec => []LoadedAfterProviders
<1>1. IInv => LoadedAfterProviders
  BY DEF IInv
<1> QED
  BY <1>1, Invariance, PTL

\* No module is handed over twice, whatever diamonds the dependencies form.
THEOREM Once == BootSpec => []LoadedOnce
<1>1. IInv => LoadedOnce
  BY DEF IInv, DoneOK
<1> QED
  BY <1>1, Invariance, PTL

\* When sort_modules returns, the flash holds every wanted module and, besides
\* those, only modules that a later one needs.
THEOREM Exactly == BootSpec => []LoadedExactly
<1>1. IInv => LoadedExactly
  <2> SUFFICES ASSUME IInv, phase = "done" PROVE LoadedExactly
    BY DEF LoadedExactly
  <2>1. /\ modules \in Seq(Files) /\ loaded \in Seq(Files) /\ stack \in Seq(Files)
    BY DEF IInv, TypeOK
  <2>2. /\ DOMAIN modules = 1..Len(modules) /\ DOMAIN loaded = 1..Len(loaded)
        /\ \A i \in 1..Len(modules) : modules[i] \in Files
    BY <2>1, LenProperties, ElementOfSeq
  <2>3. \A i \in DOMAIN modules : Wanted(modules[i]) => modules[i] \in RangeOf(loaded)
    BY <2>2 DEF IInv, VisitedOK, DoneOK
  <2>4. stack = <<>> /\ Doomed = {}
    BY DEF IInv, StackOK, DoomOK
  <2>5. Len(stack) = 0
    BY <2>1, <2>4, EmptySeq
  <2>6. \A i \in 1..Len(loaded) :
          \/ Wanted(loaded[i])
          \/ \E j \in (i + 1)..Len(loaded) : loaded[i] \in Providers(loaded[j])
    BY <2>4, <2>5 DEF IInv, NeededOK
  <2> QED
    BY <2>2, <2>3, <2>6 DEF LoadedExactly
<1> QED
  BY <1>1, Invariance, PTL

\* sort_modules panics after the discovery only for a symbol that nobody exports or
\* for modules that need each other in a circle.
THEOREM Cause == BootSpec => []PanicHasCause
<1>1. IInv => PanicHasCause
  BY DEF IInv
<1> QED
  BY <1>1, Invariance, PTL

-----------------------------------------------------------------------------
(***************************************************************************)
(* What Boot puts into ROM, flash and RAM, for files of any length, any    *)
(* number of modules, and a kernel header that claims anything at all.     *)
(***************************************************************************)

-----------------------------------------------------------------------------
(* The inductive invariant.                                                *)

\* The sizes are those of files with this content.
SizesOK == elf \in Elfs /\ sizes \in Sizes[elf]

\* Neither startup.bin nor System.map is a module, once both have been found.
KindOK == phase \notin {"discover", "panic"} =>
            \A f \in Listed : Kind[f] \notin {"startup", "map"}

KS == Cells(sizes.image)           \* the cells of the kernel and of the SBI
SS == Cells(sizes.length[Sbi])

\* The ROM has the first n files, and the length in front of the last one.
RomHas(n) ==
  /\ rom.size \in Nat /\ DOMAIN rom.cell = 0 .. rom.size - 1
  /\ \A i \in 1 .. n :
       /\ RomFiles[i].base + Cells(sizes.length[RomFiles[i].file]) <= rom.size
       /\ IsWhole(rom, RomFiles[i].base, RomFiles[i].file, {DTB_BASE - 1, SBI_BASE - 1})
  /\ n = 3 => /\ rom.size = SBI_BASE + SS /\ rom.size <= RomSpace
              /\ rom.cell[SBI_BASE - 1] = Holds(sizes.length[Sbi])

RomOK == /\ romFiles \in 0 .. 3 /\ RomHas(romFiles)
         /\ stage = "rom" => romFiles < 3
         /\ stage \in {"flash", "modules", "kernel", "sbi", "running"} => romFiles = 3

\* The flash has startup.bin and the modules in this order, each at its place in b.
FlashHas(image, order, b) ==
  /\ image.size \in Nat /\ image.size <= FlashSpace
  /\ DOMAIN image.cell = 0 .. image.size - 1
  /\ b \in [1 .. Len(order) + 1 -> Nat]
  /\ b[1] = FLASH_HEAD + Cells(sizes.length[Startup]) /\ b[1] <= image.size
  /\ b[Len(order) + 1] = image.size
  /\ IsWhole(image, FLASH_HEAD, Startup, {})
  /\ \A i \in 1 .. Len(order) :
       /\ b[i + 1] = b[i] + Cells(sizes.length[order[i]])
       /\ b[i] + 4 < b[i + 1] /\ b[i + 1] <= image.size
       /\ IsWhole(image, b[i], order[i], {b[i] + 4})
       /\ image.cell[b[i] + 4] = Holds(sizes.length[order[i]])

FlashOK == /\ stage \in {"rom", "flash"} => flash = flash_init /\ loaded = << >>
           /\ stage \in {"modules", "kernel", "sbi", "running"} => \E b : FlashHas(flash, loaded, b)

\* The RAM while the kernel is copied down to its m-th cell, and then the SBI.
KernelCell(k) == flash_read(flash, FLASH_HEAD + (k - PAYLOAD_LINK))
Rest(k)       == ram[k] = Zero \/ (sizes.image = 0 /\ k = PAYLOAD_LINK - 1)

KernelFrom(m) == \A k \in 0 .. RamSize - 1 :
  IF k \in PAYLOAD_LINK + m .. PAYLOAD_LINK + KS - 1 THEN ram[k] = KernelCell(k) ELSE Rest(k)

SbiFrom(m) == \A k \in 0 .. RamSize - 1 :
  /\ k \in m .. SS - 1 => ram[k] = rom.cell[SBI_BASE + k]
  /\ k \in PAYLOAD_LINK .. PAYLOAD_LINK + KS - 1 => ram[k] = KernelCell(k)
  /\ k \notin 0 .. SS - 1 /\ k \notin PAYLOAD_LINK .. PAYLOAD_LINK + KS - 1 => Rest(k)

At(load, link, m) == [from |-> load + m, to |-> link + m, low |-> link]

RamOK ==
  /\ DOMAIN ram = 0 .. RamSize - 1
  /\ stage \in {"rom", "flash", "modules"} =>
       copy = NoCopy /\ \A k \in 0 .. RamSize - 1 : ram[k] = Zero
  /\ stage = "kernel" /\ copy = NoCopy => KernelFrom(KS)
  /\ stage = "kernel" /\ copy # NoCopy =>
       \E m \in 0 .. KS : /\ copy = At(FLASH_HEAD, PAYLOAD_LINK, m) /\ KernelFrom(m)
                          /\ m = 0 => KS = 0
                          /\ m < KS => FLASH_HEAD + KS <= FlashSpace
  /\ stage \in {"sbi", "running"} => FLASH_HEAD + KS <= FlashSpace
  /\ stage = "sbi" /\ copy = NoCopy => SbiFrom(SS)
  /\ stage = "sbi" /\ copy # NoCopy =>
       \E m \in 0 .. SS : copy = At(SBI_BASE, 0, m) /\ SbiFrom(m) /\ (m = 0 => SS = 0)
  /\ stage = "running" => SS > 0 /\ SbiFrom(0)

ImInv == SizesOK /\ KindOK /\ RomOK /\ FlashOK /\ RamOK

-----------------------------------------------------------------------------
(* Lengths and images.                                                     *)

\* The cells of a length, and those of the headers.
LEMMA CellsIs ==
  ASSUME NEW n \in Nat
  PROVE  /\ Cells(n) \in Nat /\ (Cells(n) = 0 <=> n = 0)
         /\ n >= 24 => Cells(n) >= 3
         /\ n >= 40 => Cells(n) >= 5
BY DEF Cells

\* The lengths are numbers, and an image and an ELF file have their headers.
LEMMA LengthsAre ==
  ASSUME SizesOK
  PROVE  /\ sizes.image \in Nat /\ KS \in Nat /\ (KS = 0 <=> sizes.image = 0)
         /\ \A f \in Files \cup {Bios, Dtb, Sbi, Startup} :
              sizes.length[f] \in Nat /\ Cells(sizes.length[f]) \in Nat
         /\ SS \in Nat /\ (SS = 0 <=> sizes.length[Sbi] = 0)
         /\ Cells(sizes.length[Startup]) >= 3
         /\ \A f \in Files : Kind[f] \notin {"startup", "map"} => Cells(sizes.length[f]) >= 5
<1>1. /\ sizes.image \in Nat
      /\ \A f \in Files \cup {Bios, Dtb, Sbi, Startup} : sizes.length[f] \in Nat
      /\ sizes.length[Startup] >= 24
      /\ \A f \in Files : Kind[f] \notin {"startup", "map"} => sizes.length[f] >= 40
  BY BootAssumption DEF SizesOK
<1> QED
  BY <1>1, CellsIs DEF KS, SS

\* The constants.
LEMMA Bases ==
  /\ FLASH_HEAD \in Nat \ {0} /\ FLASH_HEAD <= FlashSpace /\ FlashSpace \in Nat
  /\ RomSpace \in Nat /\ SBI_BASE \in Nat \ {0} /\ DTB_BASE \in Nat \ {0} /\ DTB_BASE <= SBI_BASE
  /\ PAYLOAD_LINK \in Nat /\ RamSize \in Nat /\ PAYLOAD_LINK + FlashSpace <= RamSize
  /\ PAYLOAD_LOAD = FLASH_HEAD /\ SBI_LOAD = SBI_BASE /\ SBI_LINK = 0
  /\ RomSpace - SBI_BASE <= PAYLOAD_LINK
BY BootAssumption, ImagesAssumption

\* A file behind an image: what was there stays, and the file is whole.
LEMMA ExtendedIs ==
  ASSUME NEW image, image.size \in Nat, NEW base \in Nat, base >= image.size,
         NEW f, NEW n \in Nat, NEW new, new = Extended(image, f, base, n)
  PROVE  /\ new = [size |-> new.size, cell |-> new.cell]
         /\ new.size = base + Cells(n) /\ DOMAIN new.cell = 0 .. new.size - 1
         /\ \A j \in 0 .. Cells(n) - 1 : new.cell[base + j] = Piece(f, j)
         /\ \A j \in 0 .. image.size - 1 : new.cell[j] = image.cell[j]
<1> DEFINE size == base + Cells(n)
           c    == [j \in 0 .. size - 1 |->
                      CASE j >= base -> Piece(f, j - base)
                        [] j < Size(image) -> image.cell[j]
                        [] j < base /\ j >= Size(image) -> Zero]
<1>1. Cells(n) \in Nat /\ size \in Nat
  BY CellsIs
<1>2. new = [size |-> size, cell |-> c]
  BY Zenon DEF Extended
<1>3. ASSUME NEW j \in 0 .. Cells(n) - 1 PROVE c[base + j] = Piece(f, j)
  <2>1. base + j \in 0 .. size - 1 /\ base + j >= base /\ (base + j) - base = j
    BY <1>1
  <2>2. ~(base + j < image.size) /\ ~(base + j < base)
    BY <1>1
  <2> QED
    BY <2>1, <2>2 DEF Size
<1>4. ASSUME NEW j \in 0 .. image.size - 1 PROVE c[j] = image.cell[j]
  <2>1. j \in 0 .. size - 1 /\ j < image.size /\ ~(j >= base)
    BY <1>1
  <2> QED
    BY <2>1 DEF Size
<1>5. DOMAIN c = 0 .. size - 1
  OBVIOUS
<1> HIDE DEF c, size
<1>6. new.size = size /\ new.cell = c
  BY <1>2
<1>7. size = base + Cells(n)
  BY DEF size
<1> QED
  BY <1>2, <1>3, <1>4, <1>5, <1>6, <1>7

\* A cell is written.
LEMMA PutIs ==
  ASSUME NEW old, old = [size |-> old.size, cell |-> old.cell],
         NEW k \in DOMAIN old.cell, NEW v, NEW new, new = Put(old, k, v)
  PROVE  /\ new.size = old.size /\ DOMAIN new.cell = DOMAIN old.cell
         /\ new.cell[k] = v
         /\ \A j \in DOMAIN old.cell : j # k => new.cell[j] = old.cell[j]
<1> DEFINE s == old.size
           c == old.cell
<1>1. ASSUME NEW t, NEW d PROVE Put([size |-> t, cell |-> d], k, v) =
                                  [size |-> t, cell |-> [d EXCEPT ![k] = v]]
  BY DEF Put
<1>2. new = [size |-> s, cell |-> [c EXCEPT ![k] = v]]
  BY <1>1, Zenon
<1>3. k \in DOMAIN c
  OBVIOUS
<1> HIDE DEF s, c
<1>4. new.size = s /\ new.cell = [c EXCEPT ![k] = v]
  BY <1>2
<1>5. /\ DOMAIN new.cell = DOMAIN c /\ new.cell[k] = v
      /\ \A j \in DOMAIN c : j # k => new.cell[j] = c[j]
  BY <1>3, <1>4
<1> QED
  BY <1>4, <1>5 DEF s, c

\* A file is added to the ROM: its length is in front of it.
LEMMA RomAdded ==
  ASSUME NEW image, image.size \in Nat, NEW base \in Nat, base >= image.size,
         NEW f, NEW n \in Nat, NEW new, new = rom_add_file(image, f, base, n)
  PROVE  /\ new.size = base + Cells(n) /\ DOMAIN new.cell = 0 .. new.size - 1
         /\ \A j \in 0 .. Cells(n) - 1 : new.cell[base + j] = Piece(f, j)
         /\ \A j \in 0 .. image.size - 1 : j # base - 1 => new.cell[j] = image.cell[j]
         /\ base > 0 => new.cell[base - 1] = Holds(n)
<1> DEFINE k == base - 1
           h == Holds(n)
<1>1. Cells(n) \in Nat
  BY CellsIs
<1>2. PICK old : old = Extended(image, f, base, n)
  OBVIOUS
<1>3. /\ old = [size |-> old.size, cell |-> old.cell]
      /\ old.size = base + Cells(n) /\ DOMAIN old.cell = 0 .. old.size - 1
      /\ \A j \in 0 .. Cells(n) - 1 : old.cell[base + j] = Piece(f, j)
      /\ \A j \in 0 .. image.size - 1 : old.cell[j] = image.cell[j]
  BY <1>2, ExtendedIs
<1>4. new = IF base > 0 THEN Put(old, k, h) ELSE old
  BY <1>2, Zenon DEF rom_add_file
<1> HIDE DEF h
<1>5. CASE base = 0
  <2>1. new = old
    BY <1>4, <1>5
  <2> QED
    BY <1>3, <1>5, <2>1
<1>6. CASE base > 0
  <2>1. new = Put(old, k, h) /\ k \in DOMAIN old.cell
    BY <1>1, <1>3, <1>4, <1>6
  <2> HIDE DEF k
  <2>2. /\ new.size = old.size /\ DOMAIN new.cell = DOMAIN old.cell
        /\ new.cell[k] = h
        /\ \A j \in DOMAIN old.cell : j # k => new.cell[j] = old.cell[j]
    <3>1. old = [size |-> old.size, cell |-> old.cell]
      BY <1>3
    <3> QED
      BY <2>1, <3>1, PutIs
  <2> USE DEF k
  <2>3. ASSUME NEW j \in 0 .. Cells(n) - 1 PROVE new.cell[base + j] = Piece(f, j)
    <3>1. base + j \in DOMAIN old.cell /\ base + j # k
      BY <1>1, <1>3
    <3> QED
      BY <1>3, <2>2, <3>1
  <2>4. ASSUME NEW j \in 0 .. image.size - 1, j # k PROVE new.cell[j] = image.cell[j]
    <3>1. j \in DOMAIN old.cell
      BY <1>1, <1>3
    <3> QED
      BY <1>3, <2>2, <2>4, <3>1
  <2> QED
    BY <1>3, <2>2, <2>3, <2>4 DEF h
<1> QED
  BY <1>5, <1>6

\* A module is added to the flash, and its length to its header.
LEMMA ModuleAdded ==
  ASSUME NEW image, NEW s \in Nat, s >= image.size, image.size \in Nat,
         NEW f, NEW n \in Nat, NEW k \in s .. s + Cells(n) - 1, NEW h,
         NEW old, old = Extended(image, f, s, n), NEW new, new = Put(old, k, h)
  PROVE  /\ new.size = s + Cells(n) /\ DOMAIN new.cell = 0 .. new.size - 1
         /\ \A j \in 0 .. Cells(n) - 1 : s + j # k => new.cell[s + j] = Piece(f, j)
         /\ \A j \in 0 .. image.size - 1 : new.cell[j] = image.cell[j]
         /\ new.cell[k] = h
<1>1. Cells(n) \in Nat
  BY CellsIs
<1>2. /\ old = [size |-> old.size, cell |-> old.cell]
      /\ old.size = s + Cells(n) /\ DOMAIN old.cell = 0 .. old.size - 1
      /\ \A j \in 0 .. Cells(n) - 1 : old.cell[s + j] = Piece(f, j)
      /\ \A j \in 0 .. image.size - 1 : old.cell[j] = image.cell[j]
  BY ExtendedIs
<1>3. k \in DOMAIN old.cell
  BY <1>1, <1>2
<1>4. /\ new.size = old.size /\ DOMAIN new.cell = DOMAIN old.cell
      /\ new.cell[k] = h
      /\ \A j \in DOMAIN old.cell : j # k => new.cell[j] = old.cell[j]
  <2>1. old = [size |-> old.size, cell |-> old.cell]
    BY <1>2
  <2> QED
    BY <1>3, <2>1, PutIs
<1>5. ASSUME NEW j \in 0 .. Cells(n) - 1, s + j # k PROVE new.cell[s + j] = Piece(f, j)
  <2>1. s + j \in DOMAIN old.cell /\ s + j # k
    BY <1>1, <1>2, <1>5
  <2> QED
    BY <1>2, <1>4, <2>1
<1>6. ASSUME NEW j \in 0 .. image.size - 1 PROVE new.cell[j] = image.cell[j]
  <2>1. j \in DOMAIN old.cell /\ j # k
    BY <1>1, <1>2
  <2> QED
    BY <1>2, <1>4, <2>1
<1> QED
  BY <1>2, <1>4, <1>5, <1>6

-----------------------------------------------------------------------------
(* Sizes and kinds.                                                        *)

\* Nothing changes the files.
LEMMA SizesKept ==
  ASSUME SizesOK, [BootNext]_bootVars
  PROVE  SizesOK' /\ UNCHANGED <<elf, sizes>>
<1>1. UNCHANGED sizes
  BY DEF BootNext, bootVars, RomAddFile, FlashAddStartup, SortModules, RelocateKernel, RelocateSbi,
         _relocate, CopyCell, Panic
<1>2. CASE SortModules
  <2>1. UNCHANGED elf
    BY <1>2, Frames DEF SortModules
  <2> QED
    BY <1>1, <2>1 DEF SizesOK
<1>3. CASE UNCHANGED vars
  BY <1>1, <1>3 DEF vars, SizesOK
<1> QED
  BY <1>2, <1>3 DEF BootNext, bootVars, RomAddFile, FlashAddStartup, RelocateKernel, RelocateSbi,
         _relocate, CopyCell, Panic

\* The only startup.bin and the only System.map are not listed, if they are found.
LEMMA KindKept ==
  ASSUME IInv, KindOK, [Next]_vars
  PROVE  KindOK'
<1> USE DEF IInv
<1>1. CASE UNCHANGED vars
  BY <1>1 DEF vars, KindOK, Listed
<1>2. CASE Discover
  <2> SUFFICES ASSUME phase' # "panic", NEW f \in Listed' PROVE Kind[f] \notin {"startup", "map"}
    BY DEF KindOK
  <2>1. Found("startup") /\ Found("map")
    BY <1>2 DEF Discover
  <2> DEFINE C == {g \in Files : check_module(g)}
  <2>2. modules' \in Listings(C)
    BY <1>2 DEF Discover
  <2>3. modules' \in [1 .. Cardinality(C) -> C]
    BY <2>2 DEF Listings
  <2>4. f \in C
    BY <2>3 DEF Listed, RangeOf
  <2>5. ASSUME NEW k \in {"startup", "map"}, Kind[f] = k PROVE FALSE
    <3>1. PICK g \in Files : Kind[g] = k /\ ~check_module(g)
      BY <2>1 DEF Found
    <3>2. f = g
      BY <2>4, <2>5, <3>1, ModuleSortAssumption
    <3> QED
      BY <2>4, <3>1, <3>2
  <2> QED
    BY <2>5
<1>3. CASE Next /\ ~Discover
  <2>1. modules' = modules
    BY <1>3, Frames
  <2>2. phase' \notin {"discover", "panic"} => phase \notin {"discover", "panic"}
    BY <1>3 DEF Next, init_symtable, analysis_module, LoopEnd, check_dependency, SortNext, Call,
                DropDependency, CyclicChain, Finish, Traversing
  <2> QED
    BY <2>1, <2>2 DEF KindOK, Listed
<1> QED
  BY <1>1, <1>2, <1>3

\* A step of sort_modules loads nothing, or one module with an ELF header.
LEMMA LoadsOne ==
  ASSUME IInv, KindOK, Next
  PROVE  \/ loaded' = loaded
         \/ /\ loaded # loaded' /\ phase' = "sort"
            /\ \E f \in Files : loaded' = Append(loaded, f) /\ Kind[f] \notin {"startup", "map"}
<1> USE DEF IInv
<1>1. CASE ~Traversal
  BY <1>1, Frames
<1>2. CASE Traversal /\ Loads
  <2>1. loaded' = Append(loaded, stack[1]) /\ phase' = "sort" /\ phase = "sort"
    BY <1>2 DEF Loads
  <2>2. stack[1] \in Files /\ stack[1] \in Listed
    BY <1>2, TopIs DEF Loads
  <2>3. Kind[stack[1]] \notin {"startup", "map"}
    BY <2>1, <2>2 DEF KindOK
  <2>4. Len(Append(loaded, stack[1])) = Len(loaded) + 1 /\ Len(loaded) \in Nat
    BY <2>2, Appended DEF TypeOK
  <2>5. loaded # loaded'
    BY <2>1, <2>4
  <2> QED
    BY <2>1, <2>2, <2>3, <2>5
<1>3. CASE Traversal /\ ~Loads
  BY <1>3, TraversalIs DEF Calls, Drops, Breaks, Passes, Starts, Panics
<1> QED
  BY <1>1, <1>2, <1>3

-----------------------------------------------------------------------------
(* The ROM.                                                                *)

\* The three files: each but the first has its length in front of it.
LEMMA RomFilesAre ==
  /\ Len(RomFiles) = 3 /\ DOMAIN RomFiles = 1 .. 3
  /\ RomFiles[3].base = SBI_BASE /\ RomFiles[3].file = Sbi
  /\ \A i \in 1 .. 3 : /\ RomFiles[i].base \in Nat /\ RomFiles[i].file \in {Bios, Dtb, Sbi}
                       /\ RomFiles[i].base > 0 =>
                            RomFiles[i].base - 1 \in {DTB_BASE - 1, SBI_BASE - 1}
<1>1. /\ RomFiles[1] = [file |-> Bios, base |-> 0]
      /\ RomFiles[2] = [file |-> Dtb, base |-> DTB_BASE]
      /\ RomFiles[3] = [file |-> Sbi, base |-> SBI_BASE]
      /\ Len(RomFiles) = 3 /\ DOMAIN RomFiles = 1 .. 3
  BY DEF RomFiles
<1>2. /\ RomFiles[1].file = Bios /\ RomFiles[1].base = 0
      /\ RomFiles[2].file = Dtb /\ RomFiles[2].base = DTB_BASE
      /\ RomFiles[3].file = Sbi /\ RomFiles[3].base = SBI_BASE
  BY <1>1
<1>3. ASSUME NEW i \in 1 .. 3
      PROVE  /\ RomFiles[i].base \in Nat /\ RomFiles[i].file \in {Bios, Dtb, Sbi}
             /\ RomFiles[i].base > 0 => RomFiles[i].base - 1 \in {DTB_BASE - 1, SBI_BASE - 1}
  <2>1. i = 1 \/ i = 2 \/ i = 3
    OBVIOUS
  <2> QED
    BY <1>2, <2>1, Bases
<1> QED
  BY <1>1, <1>2, <1>3

\* One more file is read.
LEMMA RomGrows ==
  ASSUME SizesOK, RomOK, stage = "rom",
         NEW i, i = romFiles + 1,
         NEW f, NEW base, NEW n, f = RomFiles[i].file, base = RomFiles[i].base,
         n = sizes.length[f],
         RomTakes(rom, base, n), rom' = rom_add_file(rom, f, base, n),
         romFiles' = i, sizes' = sizes
  PROVE  i \in 1 .. 3 /\ RomHas(i)'
<1>1. /\ romFiles \in 0 .. 2 /\ i \in 1 .. 3 /\ RomHas(romFiles)
  BY DEF RomOK
<1>2. /\ base \in Nat /\ f \in {Bios, Dtb, Sbi}
      /\ base > 0 => base - 1 \in {DTB_BASE - 1, SBI_BASE - 1}
      /\ i = 3 => base = SBI_BASE /\ f = Sbi
  BY <1>1, RomFilesAre
<1>3. n \in Nat /\ Cells(n) \in Nat
  BY <1>2, LengthsAre
<1>4. rom.size \in Nat /\ base >= rom.size /\ base + Cells(n) <= RomSpace
  BY <1>1 DEF RomHas, RomTakes, Size
<1>5. PICK new, image, at, file, size :
        new = rom' /\ image = rom /\ at = base /\ file = f /\ size = n
  OBVIOUS
<1>6. /\ new.size = base + Cells(n) /\ DOMAIN new.cell = 0 .. new.size - 1
      /\ \A j \in 0 .. Cells(n) - 1 : new.cell[base + j] = Piece(f, j)
      /\ \A j \in 0 .. rom.size - 1 : j # base - 1 => new.cell[j] = rom.cell[j]
      /\ base > 0 => new.cell[base - 1] = Holds(n)
  <2>1. new = rom_add_file(image, file, at, size)
    BY <1>5, Zenon
  <2>2. at \in Nat /\ image.size \in Nat /\ at >= image.size /\ size \in Nat
    BY <1>2, <1>3, <1>4, <1>5
  <2>3. /\ new.size = at + Cells(size) /\ DOMAIN new.cell = 0 .. new.size - 1
        /\ \A j \in 0 .. Cells(size) - 1 : new.cell[at + j] = Piece(file, j)
        /\ \A j \in 0 .. image.size - 1 : j # at - 1 => new.cell[j] = image.cell[j]
        /\ at > 0 => new.cell[at - 1] = Holds(size)
    BY <2>1, <2>2, RomAdded
  <2> QED
    BY <1>5, <2>3
<1> DEFINE except == {DTB_BASE - 1, SBI_BASE - 1}
<1>7. ASSUME NEW l \in 1 .. i
      PROVE  /\ RomFiles[l].base + Cells(sizes.length[RomFiles[l].file]) <= new.size
             /\ IsWhole(new, RomFiles[l].base, RomFiles[l].file, except)
  <2> DEFINE b == RomFiles[l].base
             g == RomFiles[l].file
  <2>1. CASE l = i
    <3>1. b = base /\ g = f
      BY <2>1
    <3>2. IsWhole(new, base, f, except)
      <4> HIDE DEF except
      <4> QED
        BY <1>6 DEF IsWhole
    <3>3. base + Cells(sizes.length[f]) <= new.size
      BY <1>2, <1>3, <1>6
    <3> QED
      BY <3>1, <3>2, <3>3, Zenon
  <2>2. CASE l # i
    <3>1. l \in 1 .. romFiles /\ l \in 1 .. 3
      BY <1>1, <2>2
    <3>2. b + Cells(sizes.length[g]) <= rom.size /\ IsWhole(rom, b, g, except)
      BY <1>1, <3>1 DEF RomHas
    <3>3. b \in Nat /\ Cells(sizes.length[g]) \in Nat
      BY <3>1, RomFilesAre, LengthsAre
    <3>4. ASSUME NEW k \in 0 .. Cells(sizes.length[g]) - 1, b + k \notin except
          PROVE  new.cell[b + k] = Piece(g, k)
      <4>1. b + k \in 0 .. rom.size - 1
        BY <1>4, <3>2, <3>3
      <4>2. b + k # base - 1
        <5>1. base > 0 => base - 1 \in except
          BY <1>2
        <5> HIDE DEF except
        <5>2. b + k = base - 1 => base > 0
          BY <1>2, <3>3
        <5> QED
          BY <3>4, <5>1, <5>2
      <4>3. rom.cell[b + k] = Piece(g, k)
        BY <3>2, <3>4 DEF IsWhole
      <4> QED
        BY <1>6, <4>1, <4>2, <4>3
    <3>5. b + Cells(sizes.length[g]) <= new.size
      <4> DEFINE m == Cells(sizes.length[g])
      <4>1. b + m <= rom.size /\ b \in Nat /\ m \in Nat
        BY <3>2, <3>3
      <4>2. new.size = base + Cells(n)
        BY <1>6
      <4> HIDE DEF m, b
      <4>3. b + m <= new.size
        BY <1>2, <1>3, <1>4, <4>1, <4>2
      <4> QED
        BY <4>3 DEF m, b
    <3> QED
      BY <3>4, <3>5 DEF IsWhole
  <2> QED
    BY <2>1, <2>2
<1>8. i = 3 => /\ new.size = SBI_BASE + SS /\ new.size <= RomSpace
               /\ new.cell[SBI_BASE - 1] = Holds(sizes.length[Sbi])
  BY <1>2, <1>4, <1>6, Bases DEF SS
<1>9. new.size \in Nat
  BY <1>2, <1>3, <1>6
<1> QED
  BY <1>1, <1>5, <1>6, <1>7, <1>8, <1>9 DEF RomHas, IsWhole, SS

\* The files of the ROM stay there.
LEMMA RomKept ==
  ASSUME SizesOK, RomOK, [BootNext]_bootVars
  PROVE  RomOK'
<1>1. UNCHANGED sizes
  BY SizesKept
<1>2. CASE UNCHANGED <<romFiles, rom>> /\ (stage' \in {stage, "panic"} \/ (romFiles = 3 /\ stage' # "rom"))
  <2>1. RomHas(romFiles)'
    BY <1>1, <1>2 DEF RomOK, RomHas, IsWhole, SS
  <2> QED
    BY <1>2, <2>1 DEF RomOK
<1>3. CASE RomAddFile /\ ~Panic
  <2>0. PICK i : i = romFiles + 1
    OBVIOUS
  <2> DEFINE new  == RomFiles[i]
             n    == sizes.length[new.file]
  <2>1. /\ stage = "rom" /\ RomTakes(rom, new.base, n)
        /\ rom' = rom_add_file(rom, new.file, new.base, n) /\ romFiles' = i
        /\ stage' = IF i = Len(RomFiles) THEN "flash" ELSE stage
    BY <1>3, <2>0 DEF RomAddFile
  <2>2. i \in 1 .. 3 /\ RomHas(i)'
    <3>1. PICK f, base, m : f = new.file /\ base = new.base /\ m = n
      OBVIOUS
    <3>2. /\ RomTakes(rom, base, m) /\ rom' = rom_add_file(rom, f, base, m)
          /\ f = RomFiles[i].file /\ base = RomFiles[i].base /\ m = sizes.length[f]
      BY <2>1, <3>1
    <3> QED
      BY <1>1, <2>0, <2>1, <3>2, RomGrows
  <2>3. stage' = IF i = 3 THEN "flash" ELSE "rom"
    BY <2>1, RomFilesAre
  <2> QED
    BY <2>1, <2>2, <2>3 DEF RomOK
<1>4. CASE Panic
  BY <1>2, <1>4 DEF Panic, images
<1>5. CASE (FlashAddStartup \/ SortModules \/ RelocateKernel \/ RelocateSbi \/ CopyCell) /\ ~Panic
  <2>1. UNCHANGED <<romFiles, rom>>
    BY <1>5 DEF FlashAddStartup, SortModules, RelocateKernel, RelocateSbi, _relocate, CopyCell,
                images
  <2>2. stage \in {"flash", "modules", "kernel", "sbi"} /\ stage' # "rom"
    BY <1>5 DEF FlashAddStartup, SortModules, RelocateKernel, RelocateSbi, _relocate, CopyCell
  <2> QED
    BY <1>2, <2>1, <2>2 DEF RomOK
<1>6. CASE UNCHANGED bootVars
  BY <1>2, <1>6 DEF bootVars, images
<1> QED
  BY <1>3, <1>4, <1>5, <1>6 DEF BootNext

-----------------------------------------------------------------------------
(* The flash.                                                              *)

\* The flash with startup.bin alone.
LEMMA FlashStarts ==
  ASSUME SizesOK, NEW image, DOMAIN image.cell = 0 .. image.size - 1,
         image.size = FLASH_HEAD + Cells(sizes.length[Startup]), image.size <= FlashSpace,
         \A j \in 0 .. Cells(sizes.length[Startup]) - 1 :
           image.cell[FLASH_HEAD + j] = Piece(Startup, j)
  PROVE  \E b : FlashHas(image, << >>, b)
<1>1. image.size \in Nat
  BY LengthsAre, Bases
<1>2. IsWhole(image, FLASH_HEAD, Startup, {})
  BY DEF IsWhole
<1>3. PICK s : s = image.size
  OBVIOUS
<1> DEFINE b == [i \in 1 .. 1 |-> s]
<1>4. b \in [1 .. 0 + 1 -> Nat] /\ b[1] = s /\ b[0 + 1] = s
  BY <1>1, <1>3
<1>5. Len(<< >>) = 0
  OBVIOUS
<1> HIDE DEF b
<1>6. /\ b \in [1 .. Len(<< >>) + 1 -> Nat] /\ b[Len(<< >>) + 1] = image.size
      /\ b[1] = FLASH_HEAD + Cells(sizes.length[Startup]) /\ b[1] <= image.size
  BY <1>1, <1>3, <1>4, <1>5
<1>7. \A i \in 1 .. Len(<< >>) : FALSE
  BY <1>5
<1>8. FlashHas(image, << >>, b)
  BY <1>1, <1>2, <1>6, <1>7, Zenon DEF FlashHas
<1> QED
  BY <1>8

\* The flash with one more module.
LEMMA FlashGrows ==
  ASSUME SizesOK, NEW old, NEW order \in Seq(Files), NEW b, FlashHas(old, order, b),
         NEW f \in Files, Kind[f] \notin {"startup", "map"}, NEW n \in Nat, n = Cells(sizes.length[f]),
         NEW image, DOMAIN image.cell = 0 .. image.size - 1,
         image.size = old.size + n, image.size <= FlashSpace,
         \A j \in 0 .. n - 1 : j # 4 => image.cell[old.size + j] = Piece(f, j),
         \A j \in 0 .. old.size - 1 : image.cell[j] = old.cell[j],
         image.cell[old.size + 4] = Holds(sizes.length[f])
  PROVE  \E c : FlashHas(image, Append(order, f), c)
<1>1. n >= 5
  BY LengthsAre
<1>2. /\ old.size \in Nat /\ DOMAIN old.cell = 0 .. old.size - 1
      /\ b \in [1 .. Len(order) + 1 -> Nat]
      /\ b[1] = FLASH_HEAD + Cells(sizes.length[Startup]) /\ b[1] <= old.size
      /\ b[Len(order) + 1] = old.size
      /\ IsWhole(old, FLASH_HEAD, Startup, {})
  BY DEF FlashHas
<1>4. PICK more : more = Append(order, f)
  OBVIOUS
<1> DEFINE L == Len(order)
<1>5. /\ L \in Nat /\ Len(more) = L + 1 /\ more[L + 1] = f /\ more \in Seq(Files)
      /\ \A i \in 1 .. L : more[i] = order[i]
  BY <1>4, Appended
<1>6. \A i \in 1 .. L : order[i] \in Files
  BY <1>5, ElementOfSeq
<1> DEFINE c == [i \in 1 .. L + 2 |-> IF i <= L + 1 THEN b[i] ELSE image.size]
<1> HIDE DEF L
<1>7. image.size \in Nat /\ image.size <= FlashSpace /\ old.size <= image.size
  BY <1>1, <1>2
<1>8. \A i \in 1 .. L + 1 : b[i] \in Nat /\ c[i] = b[i]
  BY <1>2, <1>5 DEF L
<1>9. c \in [1 .. L + 2 -> Nat] /\ c[L + 2] = image.size /\ c[L + 1] = old.size
  BY <1>2, <1>5, <1>7, <1>8 DEF L
<1> HIDE DEF c
<1>10. /\ c \in [1 .. Len(more) + 1 -> Nat] /\ c[Len(more) + 1] = image.size
  <2>1. Len(more) + 1 = L + 2
    BY <1>5
  <2> QED
    BY <1>9, <2>1
<1>11. c[1] = FLASH_HEAD + Cells(sizes.length[Startup]) /\ c[1] <= image.size
  <2>1. 1 \in 1 .. L + 1
    BY <1>5
  <2>2. c[1] = b[1] /\ b[1] \in Nat
    BY <1>8, <2>1
  <2> QED
    BY <1>2, <1>7, <2>2
<1>12. IsWhole(image, FLASH_HEAD, Startup, {})
  <2> SUFFICES ASSUME NEW k \in 0 .. Cells(sizes.length[Startup]) - 1
               PROVE  image.cell[FLASH_HEAD + k] = Piece(Startup, k)
    BY DEF IsWhole
  <2>1. FLASH_HEAD + k \in 0 .. old.size - 1
    <3>1. FLASH_HEAD + Cells(sizes.length[Startup]) <= old.size
      BY <1>2
    <3>2. Cells(sizes.length[Startup]) \in Nat /\ FLASH_HEAD \in Nat
      BY LengthsAre, Bases
    <3> QED
      BY <1>2, <3>1, <3>2
  <2>2. old.cell[FLASH_HEAD + k] = Piece(Startup, k)
    BY <1>2 DEF IsWhole
  <2> QED
    BY <2>1, <2>2
<1>13. ASSUME NEW i \in 1 .. Len(more)
       PROVE  /\ c[i + 1] = c[i] + Cells(sizes.length[more[i]])
              /\ c[i] + 4 < c[i + 1] /\ c[i + 1] <= image.size
              /\ IsWhole(image, c[i], more[i], {c[i] + 4})
              /\ image.cell[c[i] + 4] = Holds(sizes.length[more[i]])
  <2>1. CASE i = L + 1
    <3>1. more[i] = f /\ c[i] = old.size /\ c[i + 1] = image.size
      <4>1. i + 1 = L + 2
        BY <1>5, <2>1
      <4> QED
        BY <1>5, <1>9, <2>1, <4>1
    <3>2. IsWhole(image, old.size, f, {old.size + 4})
      <4> SUFFICES ASSUME NEW k \in 0 .. Cells(sizes.length[f]) - 1, old.size + k # old.size + 4
                   PROVE  image.cell[old.size + k] = Piece(f, k)
        BY DEF IsWhole
      <4>1. k \in 0 .. n - 1 /\ k # 4
        OBVIOUS
      <4> QED
        BY <4>1
    <3>3. image.size = old.size + Cells(sizes.length[f]) /\ old.size + 4 < image.size
      BY <1>1, <1>2
    <3> QED
      BY <1>7, <3>1, <3>2, <3>3
  <2>2. CASE i # L + 1
    <3>1. i \in 1 .. L /\ i \in 1 .. L + 1 /\ i + 1 \in 1 .. L + 1
      BY <1>5, <2>2
    <3>2. c[i] = b[i] /\ c[i + 1] = b[i + 1] /\ more[i] = order[i] /\ b[i] \in Nat /\ b[i + 1] \in Nat
      BY <1>5, <1>8, <3>1
    <3>3. /\ b[i + 1] = b[i] + Cells(sizes.length[order[i]])
          /\ b[i] + 4 < b[i + 1] /\ b[i + 1] <= old.size
          /\ IsWhole(old, b[i], order[i], {b[i] + 4})
          /\ old.cell[b[i] + 4] = Holds(sizes.length[order[i]])
      BY <3>1 DEF FlashHas, L
    <3>4. ASSUME NEW k \in 0 .. Cells(sizes.length[order[i]]) - 1, b[i] + k # b[i] + 4
          PROVE  image.cell[b[i] + k] = Piece(order[i], k)
      <4>1. Cells(sizes.length[order[i]]) \in Nat
        BY <1>6, <3>1, LengthsAre
      <4>2. b[i] + k \in 0 .. old.size - 1
        <5> DEFINE at == b[i]
        <5>1. at \in Nat /\ at + Cells(sizes.length[order[i]]) <= old.size
          BY <3>2, <3>3
        <5> HIDE DEF at
        <5>2. at + k \in 0 .. old.size - 1
          BY <1>2, <4>1, <5>1
        <5> QED
          BY <5>2 DEF at
      <4>3. old.cell[b[i] + k] = Piece(order[i], k)
        BY <3>3, <3>4 DEF IsWhole
      <4> QED
        BY <4>2, <4>3
    <3>5. IsWhole(image, b[i], order[i], {b[i] + 4})
      BY <3>4 DEF IsWhole
    <3>6. b[i] + 4 \in 0 .. old.size - 1
      <4>1. PICK at, end, size : at = b[i] /\ end = b[i + 1] /\ size = old.size
        OBVIOUS
      <4>2. at \in Nat /\ end \in Nat /\ size \in Nat /\ at + 4 < end /\ end <= size
        BY <1>2, <3>2, <3>3, <4>1
      <4>3. at + 4 \in 0 .. size - 1
        BY <4>2
      <4> QED
        BY <4>1, <4>3
    <3>7. image.cell[b[i] + 4] = Holds(sizes.length[order[i]])
      BY <3>3, <3>6
    <3>8. b[i + 1] <= image.size
      BY <1>2, <1>7, <3>2, <3>3
    <3> QED
      BY <3>2, <3>3, <3>5, <3>7, <3>8
  <2> QED
    BY <2>1, <2>2
<1>14. FlashHas(image, more, c)
  BY <1>7, <1>10, <1>11, <1>12, <1>13 DEF FlashHas
<1> QED
  BY <1>4, <1>14

\* The same lengths of the files, the same flash.
LEMMA FlashSame ==
  ASSUME UNCHANGED sizes, NEW b
  PROVE  FlashHas(flash', loaded', b) <=> FlashHas(flash, loaded, b)'
BY DEF FlashHas, IsWhole

\* What main put into the flash stays there.
LEMMA FlashKept ==
  ASSUME IInv, SizesOK, KindOK, FlashOK, [BootNext]_bootVars
  PROVE  FlashOK'
<1>1. UNCHANGED sizes
  BY SizesKept
<1>2. CASE /\ UNCHANGED <<flash, loaded>> /\ stage' \in {stage, "panic", "flash", "kernel", "sbi", "running"}
           /\ stage' = "flash" => stage \in {"rom", "flash"}
           /\ stage' \in {"kernel", "sbi", "running"} => stage \notin {"rom", "flash", "panic"}
           /\ stage \in {"rom", "flash", "modules", "kernel", "sbi", "running", "panic"}
  <2>1. ASSUME NEW b, FlashHas(flash, loaded, b) PROVE FlashHas(flash, loaded, b)'
    <3>1. FlashHas(flash', loaded', b)
      BY <1>2, <2>1
    <3> QED
      BY <1>1, <3>1, FlashSame
  <2> QED
    BY <1>2, <2>1 DEF FlashOK
<1>3. CASE FlashAddStartup /\ ~Panic
  <2>1. /\ stage = "flash" /\ stage' = "modules" /\ UNCHANGED vars
        /\ FlashTakes(flash, sizes.length[Startup])
        /\ flash' = flash_add_file(flash, Startup, sizes.length[Startup], FALSE)
    BY <1>3 DEF FlashAddStartup
  <2>2. flash = flash_init /\ loaded = << >> /\ loaded' = << >>
    BY <2>1 DEF FlashOK, vars
  <2>3. PICK image, old, f, n :
          image = flash' /\ old = flash /\ f = Startup /\ n = sizes.length[Startup]
    OBVIOUS
  <2>4. n \in Nat /\ Cells(n) \in Nat
    BY <2>3, LengthsAre
  <2>5. old.size = FLASH_HEAD /\ old.size \in Nat /\ FLASH_HEAD \in Nat
    BY <2>2, <2>3, Bases DEF flash_init
  <2>6. FlashTakes(old, n) /\ image = flash_add_file(old, f, n, FALSE)
    BY <2>1, <2>3
  <2>7. /\ image.size = old.size + Cells(n) /\ DOMAIN image.cell = 0 .. image.size - 1
        /\ \A j \in 0 .. Cells(n) - 1 : image.cell[old.size + j] = Piece(f, j)
    <3>1. PICK s : s = old.size
      OBVIOUS
    <3>2. image = Extended(old, f, s, n)
      BY <2>6, <3>1, Zenon DEF flash_add_file, Size
    <3>3. old.size \in Nat /\ s \in Nat /\ s >= old.size
      BY <2>5, <3>1
    <3>4. /\ image.size = s + Cells(n) /\ DOMAIN image.cell = 0 .. image.size - 1
          /\ \A j \in 0 .. Cells(n) - 1 : image.cell[s + j] = Piece(f, j)
      BY <2>4, <3>2, <3>3, ExtendedIs
    <3> QED
      BY <3>1, <3>4
  <2>8. old.size + Cells(n) <= FlashSpace
    BY <2>6 DEF FlashTakes, Size
  <2>9. /\ DOMAIN image.cell = 0 .. image.size - 1
        /\ image.size = FLASH_HEAD + Cells(sizes.length[Startup]) /\ image.size <= FlashSpace
        /\ \A j \in 0 .. Cells(sizes.length[Startup]) - 1 :
             image.cell[FLASH_HEAD + j] = Piece(Startup, j)
    BY <2>3, <2>5, <2>7, <2>8
  <2>10. PICK b : FlashHas(image, << >>, b)
    BY <2>9, FlashStarts
  <2>11. FlashHas(flash', loaded', b)
    BY <2>2, <2>3, <2>10
  <2>12. FlashHas(flash, loaded, b)'
    BY <1>1, <2>11, FlashSame
  <2> QED
    BY <2>1, <2>12 DEF FlashOK
<1>4. CASE SortModules
  <2>1. /\ stage = "modules" /\ Next /\ UNCHANGED <<sizes, romFiles, rom, ram, copy>>
    BY <1>4 DEF SortModules
  <2>2. CASE loaded' = loaded
    <3>1. flash' = flash /\ stage' \in {"panic", "kernel", stage}
      BY <1>4, <2>2 DEF SortModules
    <3> QED
      BY <1>2, <2>1, <2>2, <3>1
  <2>3. CASE loaded' # loaded
    <3>1. PICK f \in Files : loaded' = Append(loaded, f) /\ Kind[f] \notin {"startup", "map"}
      BY <2>1, <2>3, LoadsOne
    <3>2. loaded \in Seq(Files)
      BY DEF IInv, TypeOK
    <3>3. loaded'[Len(loaded')] = f
      <4>1. PICK s : s = Append(loaded, f)
        OBVIOUS
      <4>2. Len(s) = Len(loaded) + 1 /\ s[Len(loaded) + 1] = f
        BY <3>2, <4>1, Appended
      <4> QED
        BY <3>1, <4>1, <4>2
    <3> DEFINE n == sizes.length[f]
    <3>4. \/ /\ FlashTakes(flash, n) /\ flash' = flash_add_file(flash, f, n, TRUE)
             /\ stage' = stage
          \/ stage' = "panic"
      BY <1>4, <2>3, <3>3, Zenon DEF SortModules
    <3>5. CASE stage' = "panic"
      BY <3>5 DEF FlashOK
    <3>6. CASE /\ FlashTakes(flash, n) /\ flash' = flash_add_file(flash, f, n, TRUE)
               /\ stage' = stage
      <4>1. PICK b : FlashHas(flash, loaded, b)
        BY <2>1 DEF FlashOK
      <4>2. PICK image, old, m, order : image = flash' /\ old = flash /\ m = n /\ order = loaded
        OBVIOUS
      <4>3. /\ old.size \in Nat /\ FlashHas(old, order, b) /\ order \in Seq(Files)
        BY <3>2, <4>1, <4>2 DEF FlashHas
      <4>4. m \in Nat /\ Cells(m) \in Nat /\ Cells(m) >= 5
        BY <3>1, <4>2, LengthsAre
      <4>5. FlashTakes(old, m) /\ image = flash_add_file(old, f, m, TRUE)
        BY <3>6, <4>2
      <4>6. /\ image.size = old.size + Cells(m) /\ DOMAIN image.cell = 0 .. image.size - 1
            /\ \A j \in 0 .. Cells(m) - 1 : j # 4 => image.cell[old.size + j] = Piece(f, j)
            /\ \A j \in 0 .. old.size - 1 : image.cell[j] = old.cell[j]
            /\ image.cell[old.size + 4] = Holds(m)
        <5>1. PICK s, at, h, new :
                s = old.size /\ at = s + 4 /\ h = Holds(m) /\ new = Extended(old, f, s, m)
          OBVIOUS
        <5>2. image = Put(new, at, h)
          BY <4>5, <5>1, Zenon DEF flash_add_file, Size, LengthCell
        <5>3. old.size \in Nat /\ s \in Nat /\ s >= old.size
          BY <4>3, <5>1
        <5>4. at \in s .. s + Cells(m) - 1 /\ new = Extended(old, f, s, m)
          BY <4>4, <5>1, <5>3
        <5>5. /\ image.size = s + Cells(m) /\ DOMAIN image.cell = 0 .. image.size - 1
              /\ \A j \in 0 .. Cells(m) - 1 : s + j # at => image.cell[s + j] = Piece(f, j)
              /\ \A j \in 0 .. old.size - 1 : image.cell[j] = old.cell[j]
              /\ image.cell[at] = h
          <6>1. image.size = s + Cells(m) /\ DOMAIN image.cell = 0 .. image.size - 1
            BY <4>4, <5>2, <5>3, <5>4, ModuleAdded
          <6>2. \A j \in 0 .. Cells(m) - 1 : s + j # at => image.cell[s + j] = Piece(f, j)
            BY <4>4, <5>2, <5>3, <5>4, ModuleAdded
          <6>3. image.cell[at] = h
            BY <4>4, <5>2, <5>3, <5>4, ModuleAdded
          <6>4. \A j \in 0 .. old.size - 1 : image.cell[j] = old.cell[j]
            BY <4>4, <5>2, <5>3, <5>4, ModuleAdded, SMTT(30)
          <6> QED
            BY <6>1, <6>2, <6>3, <6>4, Zenon
        <5>6. at = s + 4 /\ \A j \in 0 .. Cells(m) - 1 : j # 4 => s + j # at
          BY <4>4, <5>1, <5>3
        <5> QED
          BY <5>1, <5>5, <5>6
      <4>7. old.size + Cells(m) <= FlashSpace
        BY <4>5 DEF FlashTakes, Size
      <4>8. PICK k : k = Cells(m)
        OBVIOUS
      <4>9. /\ k \in Nat /\ k = Cells(sizes.length[f])
            /\ DOMAIN image.cell = 0 .. image.size - 1
            /\ image.size = old.size + k /\ image.size <= FlashSpace
            /\ \A j \in 0 .. k - 1 : j # 4 => image.cell[old.size + j] = Piece(f, j)
            /\ \A j \in 0 .. old.size - 1 : image.cell[j] = old.cell[j]
            /\ image.cell[old.size + 4] = Holds(sizes.length[f])
        BY <4>2, <4>4, <4>6, <4>7, <4>8
      <4>10. PICK c : FlashHas(image, Append(order, f), c)
        BY <3>1, <4>3, <4>9, FlashGrows
      <4>11. FlashHas(flash', loaded', c)
        BY <3>1, <4>2, <4>10
      <4>12. FlashHas(flash, loaded, c)'
        BY <1>1, <4>11, FlashSame
      <4> QED
        BY <2>1, <3>6, <4>12 DEF FlashOK
    <3> QED
      BY <3>4, <3>5, <3>6
  <2> QED
    BY <2>2, <2>3
<1>5. CASE RomAddFile /\ ~Panic
  <2>1. UNCHANGED <<flash, loaded>> /\ stage = "rom" /\ stage' \in {"rom", "flash"}
    BY <1>5 DEF RomAddFile, vars
  <2> QED
    BY <1>2, <2>1
<1>6. CASE Panic
  BY <1>6 DEF Panic, FlashOK
<1>7. CASE RelocateKernel \/ RelocateSbi \/ (CopyCell /\ ~Panic)
  <2>1. UNCHANGED <<flash, loaded>>
    BY <1>7 DEF RelocateKernel, RelocateSbi, _relocate, CopyCell, images, vars
  <2>2. stage \in {"kernel", "sbi"} /\ stage' \in {stage, "sbi", "running"}
    BY <1>7 DEF RelocateKernel, RelocateSbi, _relocate, CopyCell
  <2> QED
    BY <1>2, <2>1, <2>2
<1>8. CASE UNCHANGED bootVars
  <2>1. UNCHANGED <<flash, loaded, stage>>
    BY <1>8 DEF bootVars, images, vars
  <2>2. ASSUME NEW b, FlashHas(flash, loaded, b) PROVE FlashHas(flash, loaded, b)'
    <3>1. FlashHas(flash', loaded', b)
      BY <2>1, <2>2
    <3> QED
      BY <1>1, <3>1, FlashSame
  <2> QED
    BY <2>1, <2>2 DEF FlashOK
<1> QED
  BY <1>3, <1>4, <1>5, <1>6, <1>7, <1>8 DEF BootNext

-----------------------------------------------------------------------------
(* The RAM.                                                                *)

\* What the boot code reads: the kernel's size and that of the SBI.
LEMMA SizesRead ==
  ASSUME SizesOK
  PROVE  /\ (\E b : FlashHas(flash, loaded, b)) => KernelSize = sizes.image
         /\ RomHas(3) => SbiSize = sizes.length[Sbi]
<1>1. ASSUME NEW b, FlashHas(flash, loaded, b) PROVE KernelSize = sizes.image
  <2>1. /\ flash.size \in Nat /\ FLASH_HEAD + Cells(sizes.length[Startup]) <= flash.size
        /\ IsWhole(flash, FLASH_HEAD, Startup, {})
    BY <1>1 DEF FlashHas
  <2>2. FLASH_HEAD \in Nat /\ Cells(sizes.length[Startup]) \in Nat /\ Cells(sizes.length[Startup]) >= 3
    BY Bases, LengthsAre
  <2>3. FLASH_HEAD + 2 < flash.size /\ 2 \in 0 .. Cells(sizes.length[Startup]) - 1
    BY <2>1, <2>2
  <2>4. flash.cell[FLASH_HEAD + 2] = Piece(Startup, 2)
    BY <2>1, <2>3 DEF IsWhole
  <2>5. flash_read(flash, FLASH_HEAD + 2) = Piece(Startup, 2)
    BY <2>3, <2>4 DEF flash_read, Size
  <2>6. PAYLOAD_LOAD = FLASH_HEAD
    BY Bases
  <2> QED
    BY <2>5, <2>6, Zenon DEF KernelSize
<1>2. ASSUME RomHas(3) PROVE SbiSize = sizes.length[Sbi]
  <2>1. rom.cell[SBI_BASE - 1] = Holds(sizes.length[Sbi]) /\ SBI_LOAD = SBI_BASE
    BY <1>2, Bases DEF RomHas
  <2>2. ASSUME NEW n PROVE Holds(n).number = n
    BY DEF Holds
  <2> QED
    BY <2>1, <2>2, Zenon DEF SbiSize
<1> QED
  BY <1>1, <1>2

\* The same images and the same RAM.
LEMMA RamSame ==
  ASSUME UNCHANGED <<sizes, rom, flash, ram>>, NEW m
  PROVE  KernelFrom(m)' = KernelFrom(m) /\ SbiFrom(m)' = SbiFrom(m) /\ KS' = KS /\ SS' = SS
<1>1. KS' = KS /\ SS' = SS
  BY DEF KS, SS
<1>2. KernelFrom(m)' = KernelFrom(m)
  BY <1>1 DEF KernelFrom, KernelCell, Rest
<1>3. SbiFrom(m)' = SbiFrom(m)
  BY <1>1 DEF SbiFrom, KernelCell, Rest
<1> QED
  BY <1>1, <1>2, <1>3

\* A copy in progress.
LEMMA AtIs ==
  ASSUME NEW load \in Nat \ {0}, NEW link \in Nat, NEW m \in Nat
  PROVE  /\ At(load, link, m) # NoCopy
         /\ At(load, link, m).from = load + m /\ At(load, link, m).to = link + m
         /\ At(load, link, m).low = link
<1>1. /\ At(load, link, m).from = load + m /\ At(load, link, m).to = link + m
      /\ At(load, link, m).low = link
  BY DEF At
<1>2. NoCopy.from = 0
  BY DEF NoCopy
<1> QED
  BY <1>1, <1>2

\* A step of the loop of _relocate.
LEMMA CopyStep ==
  ASSUME CopyCell, ~Panic, NEW load \in Nat \ {0}, NEW link \in Nat, NEW m \in Nat,
         copy = At(load, link, m)
  PROVE  /\ UNCHANGED <<vars, sizes, images>>
         /\ link + m >= 1
         /\ stage = "kernel" => load + m <= FlashSpace
         /\ ram' = [ram EXCEPT ![link + m - 1] =
                      IF stage = "kernel" THEN flash_read(flash, load + m - 1)
                      ELSE rom.cell[load + m - 1]]
         /\ m > 1  => stage' = stage /\ copy' = At(load, link, m - 1)
         /\ m <= 1 => /\ stage' = IF stage = "kernel" THEN "sbi" ELSE "running"
                      /\ copy' = NoCopy
<1>1. PICK from, to : from = copy.from - 1 /\ to = copy.to - 1
  OBVIOUS
<1>2. /\ copy.from = load + m /\ copy.to = link + m /\ copy.low = link
  <2>1. /\ At(load, link, m).from = load + m /\ At(load, link, m).to = link + m
        /\ At(load, link, m).low = link
    BY DEF At
  <2> QED
    BY <2>1, Zenon
<1>3. from = load + m - 1 /\ to = link + m - 1
  BY <1>1, <1>2
<1>4. /\ ~Misses8(from, to)
      /\ ram' = [ram EXCEPT ![to] = IF stage = "kernel" THEN flash_read(flash, from)
                                    ELSE rom.cell[from]]
      /\ copy'  = IF GoesOn(to) THEN [copy EXCEPT !.from = from, !.to = to] ELSE NoCopy
      /\ stage' = IF GoesOn(to) THEN stage
                  ELSE IF stage = "kernel" THEN "sbi" ELSE "running"
      /\ UNCHANGED <<vars, sizes, images>>
  BY <1>1, Zenon DEF CopyCell
<1>5. link + m >= 1 /\ (stage = "kernel" => load + m <= FlashSpace)
  <2>1. ~(to < 0) /\ ~(stage = "kernel" /\ from >= FlashSpace)
    BY <1>4 DEF Misses8
  <2> QED
    BY <1>3, <2>1, Bases
<1>6. GoesOn(to) <=> m > 1
  <2>1. GoesOn(to) <=> link < to
    BY <1>2 DEF GoesOn
  <2> QED
    BY <1>3, <2>1
<1>7. m > 1 => stage' = stage /\ copy' = At(load, link, m - 1)
  <2> SUFFICES ASSUME m > 1 PROVE stage' = stage /\ copy' = At(load, link, m - 1)
    OBVIOUS
  <2>1. stage' = stage /\ copy' = [copy EXCEPT !.from = from, !.to = to]
    BY <1>4, <1>6
  <2>2. copy = [from |-> load + m, to |-> link + m, low |-> link]
    BY DEF At
  <2>3. copy' = [from |-> from, to |-> to, low |-> link]
    <3>1. PICK a, b, c, new : a = load + m /\ b = link + m /\ c = copy /\ new = copy'
      OBVIOUS
    <3>2. c = [from |-> a, to |-> b, low |-> link]
      BY <2>2, <3>1
    <3>3. new = [c EXCEPT !.from = from, !.to = to]
      BY <2>1, <3>1, Zenon
    <3>4. new = [from |-> from, to |-> to, low |-> link]
      BY <3>2, <3>3
    <3> QED
      BY <3>1, <3>4
  <2>4. At(load, link, m - 1) = [from |-> load + (m - 1), to |-> link + (m - 1), low |-> link]
    BY DEF At
  <2>5. from = load + (m - 1) /\ to = link + (m - 1)
    BY <1>3
  <2> QED
    BY <2>1, <2>3, <2>4, <2>5
<1>8. m <= 1 => stage' = (IF stage = "kernel" THEN "sbi" ELSE "running") /\ copy' = NoCopy
  <2>1. m <= 1 => ~(m > 1)
    OBVIOUS
  <2> QED
    BY <1>4, <1>6, <2>1, Zenon
<1>9. ram' = [ram EXCEPT ![link + m - 1] = IF stage = "kernel" THEN flash_read(flash, load + m - 1)
                                           ELSE rom.cell[load + m - 1]]
  BY <1>3, <1>4, Zenon
<1> QED
  BY <1>4, <1>5, <1>7, <1>8, <1>9, Zenon

\* A cell of the kernel is copied.
LEMMA KernelCopied ==
  ASSUME SizesOK, RamOK, stage = "kernel", copy # NoCopy, CopyCell, ~Panic
  PROVE  RamOK'
<1>1. PICK m \in 0 .. KS : /\ copy = At(FLASH_HEAD, PAYLOAD_LINK, m) /\ KernelFrom(m)
                           /\ m = 0 => KS = 0
                           /\ m < KS => FLASH_HEAD + KS <= FlashSpace
  BY DEF RamOK
<1>2. /\ KS \in Nat /\ SS \in Nat /\ m \in Nat /\ (KS = 0 => sizes.image = 0)
      /\ FLASH_HEAD \in Nat \ {0} /\ PAYLOAD_LINK \in Nat /\ FlashSpace \in Nat /\ RamSize \in Nat
      /\ FLASH_HEAD <= FlashSpace /\ PAYLOAD_LINK + FlashSpace <= RamSize
  BY Bases, LengthsAre
<1>3. /\ UNCHANGED <<vars, sizes, images>>
      /\ PAYLOAD_LINK + m >= 1 /\ FLASH_HEAD + m <= FlashSpace
      /\ ram' = [ram EXCEPT ![PAYLOAD_LINK + m - 1] = flash_read(flash, FLASH_HEAD + m - 1)]
      /\ m > 1 => stage' = "kernel" /\ copy' = At(FLASH_HEAD, PAYLOAD_LINK, m - 1)
      /\ m <= 1 => stage' = "sbi" /\ copy' = NoCopy
  <2>1. FLASH_HEAD \in Nat \ {0} /\ PAYLOAD_LINK \in Nat /\ m \in Nat
    BY <1>2
  <2> QED
    BY <1>1, <2>1, CopyStep, Zenon
<1>4. FLASH_HEAD + KS <= FlashSpace
  BY <1>1, <1>2, <1>3
<1>5. PICK to, v, r : /\ to = PAYLOAD_LINK + m - 1 /\ v = flash_read(flash, FLASH_HEAD + m - 1)
                      /\ r = ram'
  OBVIOUS
<1>6. to \in 0 .. RamSize - 1 /\ DOMAIN ram = 0 .. RamSize - 1
  BY <1>2, <1>3, <1>4, <1>5 DEF RamOK
<1>7. /\ DOMAIN r = 0 .. RamSize - 1 /\ r[to] = v
      /\ \A k \in 0 .. RamSize - 1 : k # to => r[k] = ram[k]
  <2>1. r = [ram EXCEPT ![to] = v]
    BY <1>3, <1>5, Zenon
  <2> QED
    BY <1>6, <2>1
<1>8. PICK n : n = IF m = 0 THEN 0 ELSE m - 1
  OBVIOUS
<1>9. n \in 0 .. KS /\ (m > 1 => n = m - 1 /\ n # 0) /\ (m <= 1 => n = 0)
  BY <1>2, <1>8
<1>10. ASSUME NEW k \in 0 .. RamSize - 1
       PROVE  IF k \in PAYLOAD_LINK + n .. PAYLOAD_LINK + KS - 1
                THEN r[k] = KernelCell(k)
                ELSE r[k] = Zero \/ (sizes.image = 0 /\ k = PAYLOAD_LINK - 1)
  <2>1. IF k \in PAYLOAD_LINK + m .. PAYLOAD_LINK + KS - 1
          THEN ram[k] = KernelCell(k)
          ELSE ram[k] = Zero \/ (sizes.image = 0 /\ k = PAYLOAD_LINK - 1)
    BY <1>1 DEF KernelFrom, Rest
  <2>2. CASE k # to
    <3>1. k \in PAYLOAD_LINK + n .. PAYLOAD_LINK + KS - 1
            <=> k \in PAYLOAD_LINK + m .. PAYLOAD_LINK + KS - 1
      BY <1>1, <1>2, <1>5, <1>8, <2>2
    <3>2. r[k] = ram[k]
      BY <1>7, <2>2
    <3> QED
      BY <2>1, <3>1, <3>2, Zenon
  <2>3. CASE k = to /\ m = 0
    <3>1. k = PAYLOAD_LINK - 1 /\ sizes.image = 0 /\ ~(k \in PAYLOAD_LINK + n .. PAYLOAD_LINK + KS - 1)
      BY <1>1, <1>2, <1>5, <1>8, <2>3
    <3> QED
      BY <3>1, Zenon
  <2>4. CASE k = to /\ m # 0
    <3>1. k \in PAYLOAD_LINK + n .. PAYLOAD_LINK + KS - 1 /\ k = PAYLOAD_LINK + m - 1
      BY <1>1, <1>2, <1>5, <1>8, <2>4
    <3>2. FLASH_HEAD + (k - PAYLOAD_LINK) = FLASH_HEAD + m - 1
      BY <1>2, <3>1
    <3>3. r[k] = KernelCell(k)
      BY <1>5, <1>7, <2>4, <3>2, Zenon DEF KernelCell
    <3> QED
      BY <3>1, <3>3, Zenon
  <2> QED
    BY <2>2, <2>3, <2>4
<1>11. UNCHANGED <<sizes, flash, rom>>
  BY <1>3 DEF images
<1>12. KS' = KS /\ SS' = SS
  BY <1>11 DEF KS, SS
<1>13. KernelFrom(n)'
  BY <1>5, <1>10, <1>11, <1>12 DEF KernelFrom, KernelCell, Rest
<1>14. DOMAIN ram' = 0 .. RamSize - 1
  BY <1>5, <1>7
<1>15. CASE m > 1
  <2>1. stage' = "kernel" /\ copy' = At(FLASH_HEAD, PAYLOAD_LINK, n)
    BY <1>3, <1>9, <1>15
  <2>2. copy' # NoCopy
    BY <1>2, <1>9, <2>1, AtIs
  <2> QED
    BY <1>4, <1>9, <1>12, <1>13, <1>14, <1>15, <2>1, <2>2 DEF RamOK
<1>16. CASE m <= 1
  <2>1. n = 0 /\ stage' = "sbi" /\ copy' = NoCopy
    BY <1>3, <1>9, <1>16
  <2>2. SbiFrom(SS)'
    <3>1. ASSUME NEW k \in 0 .. RamSize - 1
          PROVE  /\ ~(k \in SS .. SS - 1)
                 /\ k \in PAYLOAD_LINK .. PAYLOAD_LINK + KS - 1 => r[k] = KernelCell(k)
                 /\ k \notin PAYLOAD_LINK .. PAYLOAD_LINK + KS - 1 =>
                      r[k] = Zero \/ (sizes.image = 0 /\ k = PAYLOAD_LINK - 1)
      <4>1. ~(k \in SS .. SS - 1) /\ PAYLOAD_LINK + n = PAYLOAD_LINK
        BY <1>2, <2>1
      <4> QED
        BY <1>10, <4>1, Zenon
    <3> QED
      BY <1>5, <1>11, <1>12, <3>1 DEF SbiFrom, KernelCell, Rest
  <2> QED
    BY <1>4, <1>12, <1>14, <2>1, <2>2 DEF RamOK
<1> QED
  BY <1>2, <1>15, <1>16

\* A cell of the SBI is copied: the kernel is not where it goes.
LEMMA SbiCopied ==
  ASSUME SizesOK, RomOK, RamOK, stage = "sbi", copy # NoCopy, CopyCell, ~Panic
  PROVE  RamOK'
<1>1. PICK m \in 0 .. SS : copy = At(SBI_BASE, 0, m) /\ SbiFrom(m) /\ (m = 0 => SS = 0)
  BY DEF RamOK
<1>2. /\ KS \in Nat /\ SS \in Nat /\ m \in Nat /\ 0 \in Nat
      /\ SBI_BASE \in Nat \ {0} /\ PAYLOAD_LINK \in Nat /\ FlashSpace \in Nat /\ RamSize \in Nat
      /\ PAYLOAD_LINK + FlashSpace <= RamSize /\ RomSpace \in Nat
      /\ RomSpace - SBI_BASE <= PAYLOAD_LINK
  BY Bases, LengthsAre
<1>3. /\ UNCHANGED <<vars, sizes, images>>
      /\ 0 + m >= 1
      /\ ram' = [ram EXCEPT ![0 + m - 1] = rom.cell[SBI_BASE + m - 1]]
      /\ m > 1 => stage' = "sbi" /\ copy' = At(SBI_BASE, 0, m - 1)
      /\ m <= 1 => stage' = "running" /\ copy' = NoCopy
  <2>1. SBI_BASE \in Nat \ {0} /\ 0 \in Nat /\ m \in Nat /\ stage # "kernel"
    BY <1>2
  <2> QED
    BY <1>1, <2>1, CopyStep, Zenon
<1>4. PICK to, v, r : to = m - 1 /\ v = rom.cell[SBI_BASE + m - 1] /\ r = ram'
  OBVIOUS
<1>5. m >= 1 /\ m - 1 = 0 + m - 1 /\ SS > 0
  BY <1>1, <1>2, <1>3
<1>6. SS <= PAYLOAD_LINK
  <2>1. romFiles = 3
    BY DEF RomOK
  <2>2. rom.size = SBI_BASE + SS /\ rom.size <= RomSpace
    BY <2>1 DEF RomOK, RomHas
  <2> QED
    BY <1>2, <2>2
<1>7. to \in 0 .. RamSize - 1 /\ DOMAIN ram = 0 .. RamSize - 1
  BY <1>2, <1>4, <1>5, <1>6 DEF RamOK
<1>8. /\ DOMAIN r = 0 .. RamSize - 1 /\ r[to] = v
      /\ \A k \in 0 .. RamSize - 1 : k # to => r[k] = ram[k]
  <2>1. r = [ram EXCEPT ![to] = v]
    BY <1>3, <1>4, <1>5
  <2> QED
    BY <1>7, <2>1
<1>9. ASSUME NEW k \in 0 .. RamSize - 1
      PROVE  /\ k \in to .. SS - 1 => r[k] = rom.cell[SBI_BASE + k]
             /\ k \in PAYLOAD_LINK .. PAYLOAD_LINK + KS - 1 => r[k] = KernelCell(k)
             /\ k \notin 0 .. SS - 1 /\ k \notin PAYLOAD_LINK .. PAYLOAD_LINK + KS - 1 =>
                  r[k] = Zero \/ (sizes.image = 0 /\ k = PAYLOAD_LINK - 1)
  <2>1. /\ k \in m .. SS - 1 => ram[k] = rom.cell[SBI_BASE + k]
        /\ k \in PAYLOAD_LINK .. PAYLOAD_LINK + KS - 1 => ram[k] = KernelCell(k)
        /\ k \notin 0 .. SS - 1 /\ k \notin PAYLOAD_LINK .. PAYLOAD_LINK + KS - 1 =>
             ram[k] = Zero \/ (sizes.image = 0 /\ k = PAYLOAD_LINK - 1)
    BY <1>1 DEF SbiFrom, Rest
  <2>2. CASE k # to
    <3>1. k \in to .. SS - 1 => k \in m .. SS - 1
      BY <1>1, <1>2, <1>4, <2>2
    <3>2. r[k] = ram[k]
      BY <1>8, <2>2
    <3> QED
      BY <2>1, <3>1, <3>2, Zenon
  <2>3. CASE k = to
    <3>1. k \in 0 .. SS - 1 /\ ~(k \in PAYLOAD_LINK .. PAYLOAD_LINK + KS - 1)
      BY <1>1, <1>2, <1>4, <1>5, <1>6, <2>3
    <3>2. SBI_BASE + k = SBI_BASE + m - 1
      BY <1>2, <1>4, <2>3
    <3>3. r[k] = rom.cell[SBI_BASE + k]
      BY <1>4, <1>8, <2>3, <3>2
    <3> QED
      BY <3>1, <3>3, Zenon
  <2> QED
    BY <2>2, <2>3
<1>10. UNCHANGED <<sizes, flash, rom>>
  BY <1>3 DEF images
<1>11. KS' = KS /\ SS' = SS
  BY <1>10 DEF KS, SS
<1>12. SbiFrom(to)'
  BY <1>4, <1>9, <1>10, <1>11 DEF SbiFrom, KernelCell, Rest
<1>13. DOMAIN ram' = 0 .. RamSize - 1
  BY <1>4, <1>8
<1>14. FLASH_HEAD + KS' <= FlashSpace
  BY <1>11 DEF RamOK
<1>15. CASE m > 1
  <2>1. stage' = "sbi" /\ copy' = At(SBI_BASE, 0, to)
    BY <1>3, <1>4, <1>15
  <2>2. to \in 0 .. SS' /\ to # 0 /\ to \in Nat
    BY <1>1, <1>2, <1>4, <1>11, <1>15
  <2>3. copy' # NoCopy
    BY <1>2, <2>1, <2>2, AtIs
  <2> QED
    BY <1>12, <1>13, <1>14, <2>1, <2>2, <2>3 DEF RamOK
<1>16. CASE m <= 1
  <2>1. to = 0 /\ stage' = "running" /\ copy' = NoCopy
    BY <1>1, <1>2, <1>3, <1>4, <1>5, <1>16
  <2> QED
    BY <1>5, <1>11, <1>12, <1>13, <1>14, <2>1 DEF RamOK
<1> QED
  BY <1>2, <1>15, <1>16

\* What has been copied stays.
LEMMA RamKept ==
  ASSUME IInv, SizesOK, RomOK, FlashOK, RamOK, [BootNext]_bootVars
  PROVE  RamOK'
<1>1. UNCHANGED sizes
  BY SizesKept
<1>2. /\ KS \in Nat /\ SS \in Nat /\ SBI_BASE \in Nat \ {0} /\ FLASH_HEAD \in Nat \ {0}
      /\ PAYLOAD_LINK \in Nat /\ 0 \in Nat
  BY LengthsAre, Bases
<1>3. KS' = KS /\ SS' = SS
  BY <1>1 DEF KS, SS
<1>4. CASE stage' = "panic" /\ ram' = ram
  BY <1>4 DEF RamOK
<1>5. CASE Panic
  BY <1>4, <1>5 DEF Panic
<1>6. CASE (RomAddFile \/ FlashAddStartup \/ SortModules) /\ ~Panic
  <2>1. /\ stage \in {"rom", "flash", "modules"} /\ UNCHANGED <<ram, copy>>
        /\ stage' \in {"rom", "flash", "modules", "kernel", "panic"}
    BY <1>6 DEF RomAddFile, FlashAddStartup, SortModules
  <2>2. copy = NoCopy /\ \A k \in 0 .. RamSize - 1 : ram[k] = Zero
    BY <2>1 DEF RamOK
  <2>3. KernelFrom(KS)'
    <3>1. ASSUME NEW k \in 0 .. RamSize - 1
          PROVE  ~(k \in PAYLOAD_LINK + KS .. PAYLOAD_LINK + KS - 1)
      BY <1>2
    <3> QED
      BY <1>3, <2>1, <2>2, <3>1 DEF KernelFrom, Rest
  <2> QED
    BY <2>1, <2>2, <2>3 DEF RamOK
<1>7. CASE RelocateKernel
  <2>1. /\ stage = "kernel" /\ copy = NoCopy /\ UNCHANGED <<stage, sizes, images, ram>>
        /\ copy' = [from |-> PAYLOAD_LOAD + Cells(KernelSize), to |-> PAYLOAD_LINK + Cells(KernelSize),
                    low |-> PAYLOAD_LINK]
    BY <1>7 DEF RelocateKernel, _relocate
  <2>2. KernelSize = sizes.image /\ PAYLOAD_LOAD = FLASH_HEAD
    BY <2>1, SizesRead, Bases DEF FlashOK
  <2>3. copy' = At(FLASH_HEAD, PAYLOAD_LINK, KS)
    BY <2>1, <2>2, Zenon DEF At, KS
  <2>4. PICK m : m = KS
    OBVIOUS
  <2>5. KernelFrom(m)
    BY <2>1, <2>4 DEF RamOK
  <2>6. KernelFrom(m)'
    BY <2>1, <2>5, RamSame DEF images
  <2>7. m \in 0 .. KS' /\ copy' = At(FLASH_HEAD, PAYLOAD_LINK, m) /\ (m = 0 => KS' = 0) /\ ~(m < KS')
    BY <1>2, <1>3, <2>3, <2>4
  <2>8. copy' # NoCopy
    BY <1>2, <2>3, AtIs
  <2> QED
    BY <2>1, <2>6, <2>7, <2>8 DEF RamOK
<1>8. CASE RelocateSbi
  <2>1. /\ stage = "sbi" /\ copy = NoCopy /\ UNCHANGED <<stage, sizes, images, ram>>
        /\ copy' = [from |-> SBI_LOAD + Cells(SbiSize), to |-> SBI_LINK + Cells(SbiSize),
                    low |-> SBI_LINK]
    BY <1>8 DEF RelocateSbi, _relocate
  <2>2. SbiSize = sizes.length[Sbi] /\ SBI_LOAD = SBI_BASE /\ SBI_LINK = 0
    BY <2>1, SizesRead, Bases DEF RomOK
  <2>3. copy' = At(SBI_BASE, 0, SS)
    BY <2>1, <2>2, Zenon DEF At, SS
  <2>4. PICK m : m = SS
    OBVIOUS
  <2>5. SbiFrom(m)
    BY <2>1, <2>4 DEF RamOK
  <2>6. SbiFrom(m)'
    BY <2>1, <2>5, RamSame DEF images
  <2>7. m \in 0 .. SS' /\ copy' = At(SBI_BASE, 0, m) /\ (m = 0 => SS' = 0)
    BY <1>2, <1>3, <2>3, <2>4
  <2>8. copy' # NoCopy
    BY <1>2, <2>3, AtIs
  <2>9. FLASH_HEAD + KS' <= FlashSpace
    BY <1>3, <2>1 DEF RamOK
  <2> QED
    BY <2>1, <2>6, <2>7, <2>8, <2>9 DEF RamOK
<1>9. CASE CopyCell /\ ~Panic
  BY <1>9, KernelCopied, SbiCopied DEF CopyCell
<1>10. CASE UNCHANGED bootVars
  <2>1. UNCHANGED <<stage, copy, sizes, rom, flash, ram>>
    BY <1>10 DEF bootVars, images
  <2>2. \A m : KernelFrom(m)' = KernelFrom(m) /\ SbiFrom(m)' = SbiFrom(m)
    BY <2>1, RamSame
  <2>3. KernelFrom(KS)' = KernelFrom(KS) /\ SbiFrom(SS)' = SbiFrom(SS)
    BY <1>3, <2>1 DEF KernelFrom, SbiFrom, KernelCell, Rest
  <2> QED
    BY <1>3, <2>1, <2>2, <2>3 DEF RamOK
<1> QED
  BY <1>5, <1>6, <1>7, <1>8, <1>9, <1>10 DEF BootNext

-----------------------------------------------------------------------------
(* What the invariant says of the images.                                  *)

\* Adding up the lengths in the headers leads to the modules.
LEMMA BeginIs ==
  ASSUME SizesOK, NEW b, FlashHas(flash, loaded, b), loaded \in Seq(Files),
         NEW i \in 1 .. Len(loaded)
  PROVE  Begin(i) = b[i]
<1> DEFINE A    == FLASH_HEAD + Cells(sizes.length[Startup])
           G(x) == x + Cells(flash.cell[x + 4].number)
<1>1. i \in Nat /\ i >= 1 /\ Len(loaded) \in Nat
  BY LenProperties
<1>2. b[1] = A
  BY DEF FlashHas
<1>3. ASSUME NEW n \in 2 .. i PROVE b[n] = G(b[n - 1])
  <2>1. PICK p : p = n - 1
    OBVIOUS
  <2>2. p \in 1 .. Len(loaded) /\ p + 1 = n
    BY <1>1, <2>1
  <2>3. /\ b[p + 1] = b[p] + Cells(sizes.length[loaded[p]])
        /\ flash.cell[b[p] + 4] = Holds(sizes.length[loaded[p]])
    BY <2>2 DEF FlashHas
  <2>4. ASSUME NEW m PROVE Holds(m).number = m
    BY DEF Holds
  <2>5. flash.cell[b[p] + 4].number = sizes.length[loaded[p]]
    BY <2>3, <2>4, Zenon
  <2>6. b[p + 1] = G(b[p])
    BY <2>3, <2>5, Zenon
  <2> QED
    BY <2>1, <2>2, <2>6, Zenon
<1> DEFINE Loop(g) == [n \in 1 .. i |-> IF n = 1 THEN A ELSE G(g[n - 1])]
           c    == [n \in 1 .. i |-> b[n]]
           upTo == CHOOSE g : g = Loop(g)
<1>4. Begin(i) = upTo[i]
  BY Zenon DEF Begin
<1> HIDE DEF G, A
<1>5. c = Loop(c)
  <2>1. ASSUME NEW n \in 1 .. i PROVE c[n] = IF n = 1 THEN A ELSE G(c[n - 1])
    <3>1. CASE n = 1
      BY <1>2, <3>1
    <3>2. CASE n # 1
      <4>1. n \in 2 .. i /\ n - 1 \in 1 .. i
        BY <3>2
      <4>2. c[n] = b[n] /\ c[n - 1] = b[n - 1]
        BY <4>1
      <4> HIDE DEF c
      <4>3. b[n] = G(b[n - 1])
        BY <1>3, <4>1
      <4> QED
        BY <3>2, <4>2, <4>3
    <3> QED
      BY <3>1, <3>2
  <2>2. c = [n \in 1 .. i |-> c[n]]
    OBVIOUS
  <2> HIDE DEF c
  <2> QED
    BY <2>1, <2>2
<1>6. upTo = Loop(upTo)
  <2> HIDE DEF c, Loop
  <2> QED
    BY <1>5, Zenon
<1> HIDE DEF upTo
<1>7. \A n \in 1 .. i : upTo[n] = IF n = 1 THEN A ELSE G(upTo[n - 1])
  BY <1>6
<1>8. \A n \in 1 .. i : upTo[n] = b[n]
  <2> SUFFICES ASSUME \E n \in 1 .. i : upTo[n] # b[n] PROVE FALSE
    OBVIOUS
  <2> DEFINE T == {n \in 1 .. i : upTo[n] # b[n]}
  <2>1. PICK n \in T : \A m \in T : n <= m
    <3>1. T \in SUBSET Nat /\ T # {}
      OBVIOUS
    <3> HIDE DEF T
    <3> QED
      BY <3>1, Least
  <2>2. n \in 1 .. i /\ upTo[n] # b[n]
    OBVIOUS
  <2>3. CASE n = 1
    BY <1>2, <1>7, <2>2, <2>3
  <2>4. CASE n # 1
    <3>1. n - 1 \in 1 .. i /\ ~(n <= n - 1) /\ n \in 2 .. i
      BY <2>2, <2>4
    <3>2. upTo[n - 1] = b[n - 1]
      BY <2>1, <3>1
    <3>3. upTo[n] = G(upTo[n - 1])
      BY <1>7, <2>2, <2>4
    <3>4. b[n] = G(b[n - 1])
      BY <1>3, <3>1
    <3> QED
      BY <2>2, <3>2, <3>3, <3>4
  <2> QED
    BY <2>3, <2>4
<1>9. upTo[i] = b[i]
  <2>1. i \in 1 .. i
    BY <1>1
  <2> QED
    BY <1>8, <2>1
<1> QED
  BY <1>4, <1>9

-----------------------------------------------------------------------------
(* The theorems.                                                           *)

LEMMA ImagesStart == BootInit => ImInv
<1> SUFFICES ASSUME BootInit PROVE ImInv
  OBVIOUS
<1>1. SizesOK
  BY DEF BootInit, Init, SizesOK
<1>2. KindOK
  BY DEF BootInit, Init, KindOK
<1>3. RomOK
  <2>1. rom = Empty /\ romFiles = 0 /\ stage = "rom"
    BY DEF BootInit
  <2>2. rom.size = 0 /\ DOMAIN rom.cell = {}
    BY <2>1 DEF Empty
  <2>3. RomHas(0)
    BY <2>2 DEF RomHas
  <2> QED
    BY <2>1, <2>3 DEF RomOK
<1>4. FlashOK
  BY DEF BootInit, Init, FlashOK
<1>5. RamOK
  BY DEF BootInit, RamOK
<1> QED
  BY <1>1, <1>2, <1>3, <1>4, <1>5 DEF ImInv

\* The invariants of ModuleSort and of the images, from the first file to the jump.
THEOREM ImagesInvariance == BootSpec => [](IInv /\ ImInv)
<1>1. BootInit => ImInv
  BY ImagesStart
<1>2. IInv /\ ImInv /\ [BootNext]_bootVars => ImInv'
  <2> SUFFICES ASSUME IInv, ImInv, [BootNext]_bootVars PROVE ImInv'
    OBVIOUS
  <2>1. [Next]_vars
    BY DEF BootNext, bootVars, RomAddFile, FlashAddStartup, SortModules, RelocateKernel,
           RelocateSbi, _relocate, CopyCell, Panic, images
  <2> QED
    BY <2>1, SizesKept, KindKept, RomKept, FlashKept, RamKept DEF ImInv
<1> QED
  BY <1>1, <1>2, Invariance, PTL DEF BootSpec

\* The ROM and the flash hold what main put there, and a guest that adds up the
\* lengths in the headers finds every module, in the order of sort_modules.
THEOREM ImagesWhole == BootSpec => []ImagesIntact
<1>1. IInv /\ ImInv => ImagesIntact
  <2> SUFFICES ASSUME IInv, ImInv, stage \in {"kernel", "sbi", "running"} PROVE ImagesIntact
    BY DEF ImagesIntact
  <2>1. romFiles = 3 /\ RomHas(3)
    BY DEF ImInv, RomOK
  <2>2. \A i \in DOMAIN RomFiles :
          IsWhole(rom, RomFiles[i].base, RomFiles[i].file, {DTB_BASE - 1, SBI_BASE - 1})
    BY <2>1, RomFilesAre DEF RomHas
  <2>3. PICK b : FlashHas(flash, loaded, b)
    BY DEF ImInv, FlashOK
  <2>4. loaded \in Seq(Files) /\ DOMAIN loaded = 1 .. Len(loaded)
    BY LenProperties DEF IInv, TypeOK
  <2>5. ASSUME NEW i \in DOMAIN loaded
        PROVE  /\ IsWhole(flash, Begin(i), loaded[i], {Begin(i) + 4})
               /\ flash.cell[Begin(i) + 4] = Holds(sizes.length[loaded[i]])
    <3>1. i \in 1 .. Len(loaded)
      BY <2>4
    <3>2. Begin(i) = b[i]
      BY <2>3, <2>4, <3>1, BeginIs DEF ImInv
    <3>3. /\ IsWhole(flash, b[i], loaded[i], {b[i] + 4})
          /\ flash.cell[b[i] + 4] = Holds(sizes.length[loaded[i]])
      BY <2>3, <3>1 DEF FlashHas
    <3> QED
      BY <3>2, <3>3
  <2>6. IsWhole(flash, FLASH_HEAD, Startup, {})
    BY <2>3 DEF FlashHas
  <2> QED
    BY <2>2, <2>5, <2>6 DEF ImagesIntact
<1> QED
  BY <1>1, ImagesInvariance, PTL

\* When the boot code jumps to the SBI, the RAM holds the SBI and what the kernel's
\* header claims of the flash, whatever it claims, and nothing else.
THEOREM Relocated == BootSpec => []RelocatedIntact
<1>1. IInv /\ ImInv => RelocatedIntact
  <2> SUFFICES ASSUME IInv, ImInv, stage = "running" PROVE RelocatedIntact
    BY DEF RelocatedIntact
  <2> DEFINE kernel == PAYLOAD_LINK .. PAYLOAD_LINK + KS - 1
             sbi    == SBI_LINK .. SBI_LINK + SS - 1
  <2>1. SS > 0 /\ SbiFrom(0) /\ DOMAIN ram = 0 .. RamSize - 1 /\ FLASH_HEAD + KS <= FlashSpace
    BY DEF ImInv, RamOK
  <2>2. /\ SS \in Nat /\ KS \in Nat /\ sizes.length[Sbi] \in Nat /\ sizes.length[Sbi] # 0
        /\ PAYLOAD_LINK \in Nat /\ SBI_LINK = 0 /\ FLASH_HEAD \in Nat /\ RamSize \in Nat
        /\ FlashSpace \in Nat /\ PAYLOAD_LINK + FlashSpace <= RamSize /\ SBI_BASE \in Nat
        /\ RomSpace - SBI_BASE <= PAYLOAD_LINK /\ RomSpace \in Nat
    BY <2>1, LengthsAre, Bases DEF ImInv
  <2>3. RomHas(3)
    BY DEF ImInv, RomOK
  <2>4. SS <= RamSize
    <3>1. rom.size = SBI_BASE + SS /\ rom.size <= RomSpace
      BY <2>3 DEF RomHas
    <3> QED
      BY <2>2, <3>1
  <2>5. ASSUME NEW k \in sbi PROVE ram[k] = Piece(Sbi, k - SBI_LINK)
    <3>1. k \in 0 .. SS - 1 /\ k \in 0 .. RamSize - 1 /\ k - SBI_LINK = k
      BY <2>2, <2>4
    <3>2. ram[k] = rom.cell[SBI_BASE + k]
      BY <2>1, <3>1 DEF SbiFrom
    <3>3. IsWhole(rom, SBI_BASE, Sbi, {DTB_BASE - 1, SBI_BASE - 1})
      BY <2>3, RomFilesAre DEF RomHas
    <3>4. SBI_BASE + k \notin {DTB_BASE - 1, SBI_BASE - 1}
      BY <2>2, <3>1, Bases
    <3>5. rom.cell[SBI_BASE + k] = Piece(Sbi, k)
      BY <3>1, <3>3, <3>4 DEF IsWhole, SS
    <3> QED
      BY <3>1, <3>2, <3>5
  <2>6. ASSUME NEW k \in kernel
        PROVE  /\ ram[k] = flash_read(flash, FLASH_HEAD + (k - PAYLOAD_LINK))
               /\ k - PAYLOAD_LINK < Cells(sizes.length[Startup]) =>
                    ram[k] = Piece(Startup, k - PAYLOAD_LINK)
    <3>1. k \in 0 .. RamSize - 1 /\ k - PAYLOAD_LINK \in Nat
      BY <2>1, <2>2
    <3>2. ram[k] = flash_read(flash, FLASH_HEAD + (k - PAYLOAD_LINK))
      BY <2>1, <3>1 DEF SbiFrom, KernelCell
    <3>3. ASSUME k - PAYLOAD_LINK < Cells(sizes.length[Startup])
          PROVE  flash_read(flash, FLASH_HEAD + (k - PAYLOAD_LINK)) = Piece(Startup, k - PAYLOAD_LINK)
      <4>1. PICK b : FlashHas(flash, loaded, b)
        BY DEF ImInv, FlashOK
      <4>2. /\ FLASH_HEAD + Cells(sizes.length[Startup]) <= flash.size /\ flash.size \in Nat
            /\ IsWhole(flash, FLASH_HEAD, Startup, {})
        BY <4>1 DEF FlashHas
      <4>3. PICK p : p = k - PAYLOAD_LINK
        OBVIOUS
      <4>4. Cells(sizes.length[Startup]) \in Nat
        BY LengthsAre DEF ImInv
      <4>5. p \in 0 .. Cells(sizes.length[Startup]) - 1 /\ FLASH_HEAD + p < flash.size
        BY <2>2, <3>1, <3>3, <4>2, <4>3, <4>4
      <4>6. flash.cell[FLASH_HEAD + p] = Piece(Startup, p)
        BY <4>2, <4>5 DEF IsWhole
      <4>7. flash_read(flash, FLASH_HEAD + p) = Piece(Startup, p)
        BY <4>5, <4>6 DEF flash_read, Size
      <4> QED
        BY <4>3, <4>7
    <3> QED
      BY <3>2, <3>3
  <2>7. ASSUME NEW k \in (DOMAIN ram) \ (kernel \cup sbi)
        PROVE  ram[k] = Zero \/ (sizes.image = 0 /\ k = PAYLOAD_LINK - 1)
    BY <2>1, <2>2 DEF SbiFrom, Rest
  <2>8. sizes.length[Sbi] > 0
    BY <2>2
  <2> QED
    BY <2>5, <2>6, <2>7, <2>8 DEF RelocatedIntact, KS, SS
<1> QED
  BY <1>1, ImagesInvariance, PTL
=============================================================================
