--------------------------- MODULE DescriptorRing ---------------------------
(***************************************************************************)
(* The positions of a ring of DMA descriptors of the HAL Ethernet driver.  *)
(***************************************************************************)
EXTENDS Naturals

CONSTANT N  \* ETH_TX_DESC_CNT or ETH_RX_DESC_CNT

ASSUME RingAssumption == N \in Nat \ {0}

Desc == 0 .. N - 1

\* INCR_TX_DESC_INDEX, INCR_RX_DESC_INDEX.
\* Variant: the index does not wrap.
NextUnwrapped(i) == i + 1
Next_(i) == IF i = N - 1 THEN 0 ELSE i + 1

At(i, k) == IF i + k < N THEN i + k ELSE i + k - N
=============================================================================
