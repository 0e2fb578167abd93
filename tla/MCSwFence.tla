------------------------------ MODULE MCSwFence ------------------------------
EXTENDS SwFence

CONSTANTS a, b, c, d

\* A chain, and a DMA fence that two of its fences await.
MCSwDeps == {<<b, a>>, <<c, b>>}
MCDmaDeps == {<<a, d>>, <<b, d>>}
MCTimed == {<<b, d>>}
=============================================================================
