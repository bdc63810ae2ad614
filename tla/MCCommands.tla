---------------------------- MODULE MCCommands -----------------------------
(* Instances of Commands for TLC, with units scaled down.                  *)
EXTENDS Commands

CONSTANTS a1, a2, a3, h1, h2, h3

MCSizes == (a1 :> 1) @@ (a2 :> 1) @@ (a3 :> 2)

MCFlagSets == {{}, {"ALLOC_HOST_PTR"}, {"HOST_READ_ONLY", "COPY_HOST_PTR"},
  {"HOST_WRITE_ONLY"}}
MCExtents == {<<2, 2, 2>>}
MCImageTypes == {"IMAGE1D_ARRAY", "IMAGE2D", "IMAGE2D_ARRAY", "IMAGE3D"}
MCPoints == {<<0, 0, 0>>, <<1, 0, 1>>, <<0, 1, 0>>}
MCHostPoints == {<<0, 0, 0>>, <<1, 1, 0>>}
MCRegions == {<<1, 2, 1>>, <<2, 1, 1>>, <<1, 1, 2>>}
MCPitches == {<<0, 0>>, <<5, 10>>}
MCLayouts == {<<<<0, 0>>, <<3, 6>>>>, <<<<3, 6>>, <<0, 0>>>>, <<<<3, 6>>, <<3, 6>>>>}

Arg(space) == [space |-> space]
Image(readable, writable) ==
  [space |-> "image", type |-> "IMAGE2D", readable |-> readable, writable |-> writable]

ManyRanges ==
  {<<<<n>>, <<>>>> : n \in 0 .. 34} \cup {<<<<n>>, <<4>>>> : n \in {0, 4, 20, 24}}
    \cup {<<<<m, n>>, <<>>>> : m \in {1, 4, 6}, n \in {3, 7, 11, 12}}
    \cup {<<<<m, 6, n>>, <<>>>> : m \in {1, 2}, n \in {2, 3, 5, 7}}
    \cup {<<<<1, 1, n>>, <<>>>> : n \in {2, 3, 5, 7, 8, 11}}
    \cup {<<<<12>>, <<3>>>>, <<<<4, 6>>, <<4, 3>>>>, <<<<4, 6>>, <<2, 3>>>>}
OneRange == {<<<<4>>, <<>>>>}
OwnRanges == {<<<<4, 6, 2>>, <<>>>>, <<<<12, 6, 2>>, <<2, 3, 1>>>>, <<<<4, 6, 2>>, <<2, 6, 1>>>>}

\* Kernels without arguments, with objects, with local memory, and with a
\* work-group size of their own.
MCSignatures == {
  [args |-> <<>>, required |-> <<>>, localMemory |-> 0, ranges |-> ManyRanges],
  [args |-> <<Arg("buffer"), Image(TRUE, TRUE)>>,
   required |-> <<>>, localMemory |-> 0, ranges |-> OneRange],
  [args |-> <<Image(FALSE, TRUE), Image(TRUE, FALSE)>>,
   required |-> <<>>, localMemory |-> 0, ranges |-> OneRange],
  [args |-> <<Arg("local"), Arg("local"), Arg("local")>>,
   required |-> <<>>, localMemory |-> 3, ranges |-> OneRange],
  [args |-> <<Arg("sampler"), Arg("value")>>,
   required |-> <<2, 3, 1>>, localMemory |-> 0, ranges |-> OwnRanges]}
MCPrimes == <<2, 3>>
MCWaves == <<2, 4>>
MCMaxDims == <<8, 8, 4>>
=============================================================================
