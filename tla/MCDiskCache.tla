---------------------------- MODULE MCDiskCache ----------------------------
(***************************************************************************)
(* DiskCache on two blocks of two sectors behind one boot sector, with two *)
(* cache lines: one block fills the cache, the next sector read evicts, a  *)
(* write in mid-block empties it, and the 32-bit clock wraps after five    *)
(* reads.                                                                  *)
(***************************************************************************)
EXTENDS DiskCacheLRU, FiniteSets

\* The instance has evictions: more sectors than lines.
ASSUME CACHE_SIZE < Cardinality(Sector)
=============================================================================
