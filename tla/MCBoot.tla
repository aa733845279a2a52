------------------------------- MODULE MCBoot -------------------------------
(***************************************************************************)
(* Boot for TLC: four candidate modules, one of them a test, so that       *)
(* diamonds, chains and cycles of every length up to four occur; and for a *)
(* few of these graphs, images of many sizes, up to one byte too long.     *)
(***************************************************************************)
EXTENDS Boot

Candidates == {"a", "b", "c", "d"}
MCFiles    == Candidates \cup {"startup.bin", "System.map"}
MCKind     == [f \in MCFiles |-> CASE f = "startup.bin" -> "startup"
                                   [] f = "System.map"  -> "map"
                                   [] f = "d"           -> "test"
                                   [] OTHER             -> "ko"]

\* The symbol of each module, one of the kernel and one nobody exports.
MCSymbols == Candidates \cup {"printk", "missing"}
MCKernel  == <<"printk">>

\* One symbol per module; b exports a's symbol as well.
Own    == [f \in MCFiles |-> IF f \in Candidates THEN <<f>> ELSE << >>]
Shared == [Own EXCEPT !["b"] = <<"a", "b">>]

Misses(a, b, c, d) ==
  [f \in MCFiles |-> CASE f = "a" -> a [] f = "b" -> b [] f = "c" -> c
                       [] f = "d" -> d [] OTHER -> << >>]

\* a misses up to two symbols in either order, the others at most one.
Graphs ==
  {Misses(a, b, c, d) :
     a \in {<< >>, <<"b">>, <<"b", "c">>, <<"c", "b">>, <<"c", "d">>, <<"printk">>},
     b \in {<< >>, <<"c">>, <<"d">>, <<"a">>},
     c \in {<< >>, <<"b">>, <<"a">>, <<"missing">>},
     d \in {<< >>, <<"a", "c">>, <<"c", "printk", "b">>}}

MCElfs == [exports : {Own, Shared}, undefs : Graphs]
MCStartpoints == {NoStartpoint, {"d"}, {"startup.bin"}}

-----------------------------------------------------------------------------
\* With these lengths the ROM is full but for one cell, and so is the flash
\* with four modules.
Usual == [f \in MCFiles \cup {"bios.bin", "virt.dtb", "fw_jump.bin"} |->
            CASE f = "bios.bin" -> 16 [] f = "virt.dtb" -> 15 [] f = "fw_jump.bin" -> 16
              [] f = "startup.bin" -> 24 [] f = "b" -> 41 [] OTHER -> 40]
UsualSize == [length |-> Usual, image |-> 24]

\* Every file at the ends of its place, and the kernel's claim from nothing to
\* more than the flash.
Variants ==
  {[UsualSize EXCEPT !.length[v[1]] = v[2]] :
     v \in ({"bios.bin"} \X {17, 24, 25}) \cup ({"virt.dtb"} \X {1, 16, 17, 24, 25})
           \cup ({"fw_jump.bin"} \X {0, 1, 24, 25})
           \cup ({"startup.bin"} \X {25, 32, 33, 208}) \cup ({"d"} \X {48, 49})}
  \cup {[UsualSize EXCEPT !.image = n] : n \in {0, 1, 25, 80, 200, 201}}

ManySizes == {Misses(<<"b">>, << >>, <<"a">>, << >>), Misses(<< >>, <<"d">>, << >>, <<"a", "c">>)}

MCSizes == [e \in MCElfs |-> IF e.exports = Own /\ e.undefs \in ManySizes
                               THEN {UsualSize} \cup Variants ELSE {UsualSize}]
=============================================================================
