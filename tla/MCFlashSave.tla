---------------------------- MODULE MCFlashSave ----------------------------
(* The whole layout of the page, for TLC. *)
EXTENDS FlashSave

Base(at, n) == {at[n] + 2 * i : i \in 0 .. (IF n \in Arrays THEN 10 ELSE 1) - 1}

\* channel_init() looks for every setting where save() leaves it, and no two settings
\* share a half-word.
ASSUME LayoutAssumption ==
    \A n, m \in DOMAIN LoadAt :
        /\ LoadAt[n] = SaveAt[n]
        /\ n # m => Base(SaveAt, n) \cap Base(SaveAt, m) = {}
=============================================================================
