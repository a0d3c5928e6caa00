--------------------------- MODULE CompilerPasses ----------------------------
(***************************************************************************)
(* Three sides of compile() (src/compiler.cpp), which have no state in     *)
(* common: the exits of nested constructs, the variables of a function,    *)
(* and what the optimizer then does with a chunk.                          *)
(***************************************************************************)
EXTENDS Exits, Scopes

CONSTANTS
    MaxCode,   \* bounds on the chunk that is optimized: its instructions,
    MaxJumps,  \* its jumps
    MaxStack   \* and the height of its stack

VARIABLES code, source, asm, pass, unsafe  \* that of module Peephole

optimizerVars == <<code, source, asm, pass, unsafe>>

Peep == INSTANCE Peephole

-----------------------------------------------------------------------------
(* After every rewriting the code does what it did, unless one has spanned *)
(* a NOP that is the target of a jump, which only the instructions it      *)
(* takes part of are tested for, or removed a branch on a constant         *)
(* (optimizeChunk, optimizeChunkO2).                                       *)
SafeRewritesKeepMeaning == Peep!SafeRewritesKeepMeaning
=============================================================================
