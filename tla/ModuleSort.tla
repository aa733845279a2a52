----------------------------- MODULE ModuleSort -----------------------------
(***************************************************************************)
(* The load order of kernel modules (src/module.c, sort_modules): the      *)
(* files of image/ are discovered, the symbols they export and miss are    *)
(* collected, each missing symbol is turned into a dependency on the first *)
(* exporter, and a depth-first traversal hands the modules to the callback *)
(* (flash_add_file) in the order in which they are appended to the flash.  *)
(*                                                                         *)
(* The traversal is recursive in the code.  Here its activation records    *)
(* are the sequence `stack', innermost first; everything an activation     *)
(* needs is its module, because it deletes the dependencies it is done     *)
(* with.  ELF reading is abstracted to the symbols it finds.               *)
(***************************************************************************)
EXTENDS Naturals, Sequences, FiniteSets

CONSTANTS Files,         \* the names in image/
          Kind,          \* "ko", "test", "startup", "map" or "nodot" per file
          Symbols,
          NULL,          \* no module: the exporter is startup.bin
          KernelSymbols, \* the names between the ksymtab_strings bounds
          Elfs,          \* what the files may contain: [exports, undefs]
          Startpoints    \* argv[1]: none, or the files with that prefix

NoStartpoint == {NULL}   \* _startpoint is NULL

ASSUME ModuleSortAssumption ==
  /\ NULL \notin Files /\ IsFiniteSet(Files)
  /\ KernelSymbols \in Seq(Symbols)
  /\ Kind \in [Files -> {"ko", "test", "startup", "map", "nodot"}]
  /\ \A f, g \in Files :       \* these two kinds are one name each
       Kind[f] = Kind[g] /\ Kind[f] \in {"startup", "map"} => f = g
  /\ Elfs \subseteq [exports : [Files -> Seq(Symbols)],
                     undefs  : [Files -> Seq(Symbols)]]
  /\ \A p \in Startpoints : p = NoStartpoint \/ p \in SUBSET Files

VARIABLES elf,           \* the content of the files
          startpoint,    \* _startpoint
          phase,         \* which loop of sort_modules runs: discover, init_symtable,
                         \* analysis, check, sort; done or panic
          modules,       \* the list `modules'
          pos,           \* the position of that loop in it
          symbols,       \* the list `symbols': [name, mod]
          undef_syms,    \* mod->undef_syms
          dependencies,  \* mod->dependencies
          status,        \* mod->status
          stack,         \* activations of traverse_dependency, innermost first
          loaded         \* the calls of cb, in order

files == <<elf, startpoint>>
vars  == <<elf, startpoint, phase, modules, pos, symbols, undef_syms,
           dependencies, status, stack, loaded>>

RangeOf(s) == {s[i] : i \in DOMAIN s}

Init ==
  /\ elf \in Elfs /\ startpoint \in Startpoints
  /\ phase = "discover"
  /\ modules = << >> /\ pos = 1 /\ symbols = << >>
  /\ undef_syms = [f \in Files |-> << >>]
  /\ dependencies = [f \in Files |-> << >>]
  /\ status = [f \in Files |-> "NONE"]
  /\ stack = << >> /\ loaded = << >>

-----------------------------------------------------------------------------
(* discover_modules.                                                       *)

HasPrefix(f) == f \in startpoint

check_module(f) == HasPrefix(f) \/ Kind[f] = "ko"

\* strrchr finds no dot in the name and strcmp is given NULL.
CrashesOn(f) == ~HasPrefix(f) /\ Kind[f] = "nodot"

Found(k) == \E f \in Files : Kind[f] = k /\ ~check_module(f)

Listings(S) == {s \in [1 .. Cardinality(S) -> S] :
                  \A i, j \in DOMAIN s : s[i] = s[j] => i = j}

\* scandir does not sort: the modules are listed in any order.
Discover ==
  /\ phase = "discover"
  /\ modules' \in Listings({f \in Files : check_module(f)})
  /\ phase' = IF Found("startup") /\ Found("map") /\ ~\E f \in Files : CrashesOn(f)
                THEN "init_symtable" ELSE "panic"
  /\ UNCHANGED <<files, pos, symbols, undef_syms, dependencies, status, stack,
                 loaded>>

-----------------------------------------------------------------------------
(* The symbol tables.                                                      *)

export_symbols(names, mod) ==
  symbols \o [i \in DOMAIN names |-> [name |-> names[i], mod |-> mod]]

init_symtable ==
  /\ phase = "init_symtable"
  /\ symbols' = export_symbols(KernelSymbols, NULL)
  /\ phase' = "analysis"
  /\ UNCHANGED <<files, modules, pos, undef_syms, dependencies, status, stack,
                 loaded>>

\* A loop over `modules' ends: the next one starts from the head.
LoopEnd(this, next) ==
  /\ phase = this /\ pos > Len(modules)
  /\ phase' = next /\ pos' = 1
  /\ UNCHANGED <<files, modules, symbols, undef_syms, dependencies, status,
                 stack, loaded>>

analysis_module ==
  /\ phase = "analysis" /\ pos <= Len(modules)
  /\ LET mod == modules[pos]
     IN  /\ undef_syms' = [undef_syms EXCEPT ![mod] = elf.undefs[mod]]
         /\ symbols' = export_symbols(elf.exports[mod], mod)
  /\ pos' = pos + 1
  /\ UNCHANGED <<files, phase, modules, dependencies, status, stack, loaded>>

Entries(name) == {k \in DOMAIN symbols : symbols[k].name = name}

\* Mutant: the symbol exported last wins.
LastEntry(name) ==
  symbols[CHOOSE k \in Entries(name) : \A j \in Entries(name) : j <= k].mod

\* The module of the first symbol of that name (the search found one).
match_undef(name) ==
  symbols[CHOOSE k \in Entries(name) : \A j \in Entries(name) : k <= j].mod

find_dependency(cur, target) == target \in RangeOf(dependencies[cur])

\* Mutant: a symbol nobody exports is skipped.
check_dependency_lenient ==
  /\ phase = "check" /\ pos <= Len(modules)
  /\ LET mod == modules[pos]
         und == undef_syms[mod]
     IN  \/ /\ und = << >>
            /\ pos' = pos + 1
            /\ UNCHANGED <<phase, undef_syms, dependencies>>
         \/ /\ und # << >>
            /\ undef_syms' = [undef_syms EXCEPT ![mod] = Tail(und)]
            /\ dependencies' =
                 IF \/ Entries(Head(und)) = {}
                    \/ match_undef(Head(und)) = NULL
                    \/ find_dependency(mod, match_undef(Head(und)))
                   THEN dependencies
                   ELSE [dependencies EXCEPT ![mod] =
                           Append(@, match_undef(Head(und)))]
            /\ UNCHANGED <<phase, pos>>
  /\ UNCHANGED <<files, modules, symbols, status, stack, loaded>>

\* One missing symbol at a time: panic if nobody exports it, otherwise one
\* dependency per exporting module and none on startup.bin.
check_dependency ==
  /\ phase = "check" /\ pos <= Len(modules)
  /\ LET mod == modules[pos]
         und == undef_syms[mod]
     IN  \/ /\ und = << >>
            /\ pos' = pos + 1
            /\ UNCHANGED <<phase, undef_syms, dependencies>>
         \/ /\ und # << >> /\ Entries(Head(und)) = {}
            /\ phase' = "panic"
            /\ UNCHANGED <<pos, undef_syms, dependencies>>
         \/ /\ und # << >> /\ Entries(Head(und)) # {}
            /\ undef_syms' = [undef_syms EXCEPT ![mod] = Tail(und)]
            /\ LET target == match_undef(Head(und))
               IN  dependencies' =
                     IF target = NULL \/ find_dependency(mod, target)
                       THEN dependencies
                       ELSE [dependencies EXCEPT ![mod] = Append(@, target)]
            /\ UNCHANGED <<phase, pos>>
  /\ UNCHANGED <<files, modules, symbols, status, stack, loaded>>

-----------------------------------------------------------------------------
(* The traversal.                                                          *)

\* The startpoint filter of sort_modules.
Wanted(mod) == startpoint = NoStartpoint \/ mod \in startpoint

Enter(mod) == /\ status[mod] = "NONE"
              /\ status' = [status EXCEPT ![mod] = "DOING"]
              /\ stack' = <<mod>> \o stack

\* The outer loop: skip, call traverse_dependency, or look at what the call
\* (or the earlier one that got there first) left in the status.
SortNext ==
  /\ phase = "sort" /\ stack = << >> /\ pos <= Len(modules)
  /\ LET mod == modules[pos]
     IN  \/ /\ ~Wanted(mod) \/ status[mod] = "DONE"
            /\ pos' = pos + 1
            /\ UNCHANGED <<phase, status, stack>>
         \/ /\ Wanted(mod)
            /\ Enter(mod)
            /\ UNCHANGED <<phase, pos>>
         \/ /\ Wanted(mod) /\ status[mod] = "DOING"
            /\ phase' = "panic"
            /\ UNCHANGED <<pos, status, stack>>
  /\ UNCHANGED <<files, modules, symbols, undef_syms, dependencies, loaded>>

Traversing(mod) == phase = "sort" /\ stack # << >> /\ mod = Head(stack)

Call == \E mod \in Files :
  /\ Traversing(mod) /\ dependencies[mod] # << >>
  /\ Enter(Head(dependencies[mod]))
  /\ UNCHANGED <<files, phase, modules, pos, symbols, undef_syms, dependencies,
                 loaded>>

\* The dependency is loaded: it leaves the list.
DropDependency == \E mod \in Files :
  /\ Traversing(mod) /\ dependencies[mod] # << >>
  /\ status[Head(dependencies[mod])] = "DONE"
  /\ dependencies' = [dependencies EXCEPT ![mod] = Tail(@)]
  /\ UNCHANGED <<files, phase, modules, pos, symbols, undef_syms, status, stack,
                 loaded>>

\* Mutant: a dependency that is DOING is put off until the others are done.
CyclicPutOff == \E mod \in Files :
  /\ Traversing(mod) /\ dependencies[mod] # << >>
  /\ status[Head(dependencies[mod])] = "DOING"
  /\ dependencies' = [dependencies EXCEPT ![mod] = Append(Tail(@), Head(@))]
  /\ UNCHANGED <<files, phase, modules, pos, symbols, undef_syms, status, stack,
                 loaded>>

\* "cyclic chain": the activation returns and leaves its module DOING, which
\* makes every enclosing activation return the same way.
CyclicChain == \E mod \in Files :
  /\ Traversing(mod) /\ dependencies[mod] # << >>
  /\ status[Head(dependencies[mod])] = "DOING"
  /\ stack' = Tail(stack)
  /\ UNCHANGED <<files, phase, modules, pos, symbols, undef_syms, dependencies,
                 status, loaded>>

\* Mutants of the end of an activation: the status is reset; the callback is
\* forgotten.
FinishReset == \E mod \in Files :
  /\ Traversing(mod) /\ dependencies[mod] = << >>
  /\ loaded' = Append(loaded, mod)
  /\ stack' = Tail(stack)
  /\ status' = [status EXCEPT ![mod] = "NONE"]
  /\ UNCHANGED <<files, phase, modules, pos, symbols, undef_syms, dependencies>>

FinishSilent == \E mod \in Files :
  /\ Traversing(mod) /\ dependencies[mod] = << >>
  /\ status' = [status EXCEPT ![mod] = "DONE"]
  /\ loaded' = loaded
  /\ stack' = Tail(stack)
  /\ UNCHANGED <<files, phase, modules, pos, symbols, undef_syms, dependencies>>

\* No dependency is left: the module is DONE and handed to the callback.
Finish == \E mod \in Files :
  /\ Traversing(mod) /\ dependencies[mod] = << >>
  /\ status' = [status EXCEPT ![mod] = "DONE"]
  /\ loaded' = Append(loaded, mod)
  /\ stack' = Tail(stack)
  /\ UNCHANGED <<files, phase, modules, pos, symbols, undef_syms, dependencies>>

-----------------------------------------------------------------------------
Next == \/ Discover \/ init_symtable
        \/ analysis_module  \/ LoopEnd("analysis", "check")
        \/ check_dependency \/ LoopEnd("check", "sort")
        \/ SortNext \/ Call \/ DropDependency \/ CyclicChain \/ Finish
        \/ LoopEnd("sort", "done")

Spec == Init /\ [][Next]_vars

-----------------------------------------------------------------------------
(* What the order must be, from the content of the files alone.            *)

Exporters(s) == {i \in DOMAIN modules : s \in RangeOf(elf.exports[modules[i]])}

\* The modules m needs: for each symbol it misses and the kernel does not
\* have, the first listed exporter.
Providers(m) ==
  {modules[i] : i \in {i \in DOMAIN modules :
     \E s \in RangeOf(elf.undefs[m]) \ RangeOf(KernelSymbols) :
       i \in Exporters(s) /\ \A j \in Exporters(s) : i <= j}}

Resolvable(m) ==
  \A s \in RangeOf(elf.undefs[m]) : s \in RangeOf(KernelSymbols) \/ Exporters(s) # {}

\* A module handed to the flash finds every symbol it misses in startup.bin or
\* in a module that was handed over before it (traverse_dependency,
\* check_dependency): appending in this order never leaves a forward reference.
LoadedAfterProviders ==
  \A i \in DOMAIN loaded : \A s \in RangeOf(elf.undefs[loaded[i]]) :
    \/ s \in RangeOf(KernelSymbols)
    \/ \E j \in 1 .. i - 1 : s \in RangeOf(elf.exports[loaded[j]])

\* No module is handed over twice, whatever diamonds the dependencies form and
\* however often the outer loop of sort_modules meets it.
LoadedOnce == \A i, j \in DOMAIN loaded : loaded[i] = loaded[j] => i = j

\* When sort_modules returns, the flash holds every wanted module and, besides
\* those, only modules that a later one in the flash needs.
LoadedExactly ==
  phase = "done" =>
    /\ \A i \in DOMAIN modules : Wanted(modules[i]) => modules[i] \in RangeOf(loaded)
    /\ \A i \in DOMAIN loaded :
         \/ Wanted(loaded[i])
         \/ \E j \in i + 1 .. Len(loaded) : loaded[i] \in Providers(loaded[j])

\* The panics of sort_modules have their cause in the files: a panic after the
\* discovery means an unresolvable symbol or a set of modules each needing
\* another of the set; a finished DOING mark never makes a sound graph fail.
PanicHasCause ==
  phase = "panic" =>
    \/ ~Found("startup") \/ ~Found("map") \/ \E f \in Files : CrashesOn(f)
    \/ \E i \in DOMAIN modules : ~Resolvable(modules[i])
    \/ \E S \in (SUBSET RangeOf(modules)) \ {{}} :
         \A m \in S : Providers(m) \cap S # {}
=============================================================================
