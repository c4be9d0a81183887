------------------------ MODULE MCSymbolResolution ------------------------
(***************************************************************************)
(* Command lines for SymbolResolution: a main object and three modules x,  *)
(* y and z that are spread over archives in several ways, with symbol      *)
(* tables that need each other across archives, define a symbol twice,     *)
(* refer to linker symbols and hold weak symbols.                          *)
(***************************************************************************)
EXTENDS SymbolResolution, TLC

CONSTANTS a, b, cinit, stk, main, x, y, z, pic14, pic16

MCSymbol == {a, b, cinit, stk}
MCModule == {main, x, y, z}
MCStack  == {stk}
MCClass  == {pic14, pic16}

Def(s)  == [name |-> s, undef |-> FALSE, reloc |-> FALSE]
Ref(s)  == [name |-> s, undef |-> TRUE,  reloc |-> TRUE]
Weak(s) == [name |-> s, undef |-> TRUE,  reloc |-> FALSE]

MainTables == {<<Ref(a), Ref(cinit)>>, <<Def(a), Ref(b)>>, <<Ref(stk), Ref(b), Ref(a)>>,
               <<Weak(a), Weak(b)>>}
LibTables  == {<< >>, <<Def(a), Ref(b)>>, <<Ref(a), Def(b)>>, <<Def(a), Weak(cinit), Def(b)>>,
               <<Def(cinit), Weak(b)>>}

Object(m) == [archive |-> FALSE, members |-> <<m>>, indexed |-> FALSE]
Archive(ms, indexed) == [archive |-> TRUE, members |-> ms, indexed |-> indexed]

FileLists == {<<Object(main), Archive(<<x>>, TRUE), Archive(<<y, z>>, TRUE)>>,
              <<Archive(<<x, y>>, TRUE), Object(main), Archive(<<z>>, FALSE)>>,
              <<Object(main), Object(z), Archive(<<x, y>>, FALSE), Archive(<<x, y>>, TRUE)>>,
              <<Archive(<<x, y, z>>, TRUE)>>}

SameClass  == [m \in MCModule |-> pic14]
MixedClass == [SameClass EXCEPT ![z] = pic16]

Options == {[idata |-> {x}, stack |-> FALSE, weak |-> TRUE,  class |-> SameClass],
            [idata |-> {},  stack |-> TRUE,  weak |-> FALSE, class |-> SameClass],
            [idata |-> {y}, stack |-> TRUE,  weak |-> TRUE,  class |-> MixedClass]}

MCInput ==
    {[files |-> f, symtab |-> (main :> mt) @@ (x :> xt) @@ (y :> yt) @@ (z :> zt),
      class |-> o.class, idata |-> o.idata, stack |-> o.stack, weak |-> o.weak] :
        f \in FileLists, mt \in MainTables, xt \in LibTables, yt \in LibTables,
        zt \in LibTables, o \in Options}
=============================================================================
