-------------------------- MODULE MCRenderPipeline ---------------------------
(***************************************************************************)
(* Instances of RenderPipeline for TLC.                                    *)
(***************************************************************************)
EXTENDS RenderPipeline, TLC

CONSTANTS r1, r2, m1, m2

TwoRenderers == {r1, r2}
OneRenderer == {r1}
TwoMedia == {m1, m2}
OneMedium == {m1}
Nothing == {}
Early == {"earlyFrame"}
Failing == {"setupFails"}

\* Addresses are interchangeable.
RendererSymmetry == Permutations(Renderers)
=============================================================================
