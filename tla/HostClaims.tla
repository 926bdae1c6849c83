----------------------------- MODULE HostClaims -----------------------------
(***************************************************************************)
(* The host's mirrors of the schedulers, from config.py: which worklist    *)
(* indices make up one claim of the V3 and V4 queues, and which ones a CTA *)
(* of the grid-stride kernels visits.  They are pure functions; the kernel *)
(* modules state that the device hands out exactly these.                  *)
(***************************************************************************)
EXTENDS Integers

\* tuple(range(first, last, step)), whose order is that of its members.
PyRange(first, last, step) ==
  {i \in first .. last - 1 : (i - first) % step = 0}

\* The runs of at most `size` consecutive tiles that [first, last) falls into.
Batches(first, last, size) ==
  {begin .. (IF begin + size < last THEN begin + size ELSE last) - 1 :
     begin \in PyRange(first, last, size)}

\* What one CTA of a grid-stride kernel visits.
StaticCtaAssignment(ctaId, tileCount, ctaCount) ==
  PyRange(ctaId, tileCount, ctaCount)

\* The claims of one atomic queue.
ChunkedClaims(tileCount, claimSize) == Batches(0, tileCount, claimSize)

\* Coarse claims from the main region, then single tiles from the tail.
HybridClaims(tileCount, mainClaimSize, tailTiles) ==
  LET tailBegin ==
        tileCount - (IF tileCount < tailTiles THEN tileCount ELSE tailTiles)
  IN  Batches(0, tailBegin, mainClaimSize) \cup Batches(tailBegin, tileCount, 1)
=============================================================================
