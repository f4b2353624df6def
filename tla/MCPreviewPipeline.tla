------------------------- MODULE MCPreviewPipeline -------------------------
(* Instances of PreviewPipeline for TLC. *)
EXTENDS PreviewPipeline

CONSTANTS photo, before, canvas, beforeCanvas, source, tone, detail, void

\* Each crop belongs to the coordinator of its side of the before/after view.
MCCoordOf == [k \in Crops |-> IF k = canvas THEN photo ELSE before]

\* Three classes of events: those that begin at the source, those that begin at
\* the tone stage, and those that are seen at full resolution only; and those
\* that need no pass.
MCActions == {{source, tone, detail}, {tone, detail}, {detail}, {void}}

\* The first two.
MCToneActions == {{source, tone}, {tone}}

=============================================================================
