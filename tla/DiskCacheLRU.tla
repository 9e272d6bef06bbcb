---------------------------- MODULE DiskCacheLRU ----------------------------
(***************************************************************************)
(* DiskCache with a history: which sectors in the cache were last asked    *)
(* for before which, kept apart from the accessTime fields the code uses   *)
(* to recover it.                                                          *)
(***************************************************************************)
EXTENDS DiskCache

VARIABLES
  usedBefore,   \* pairs of sectors in the cache: the first was last used before
  clockWrapped  \* cacheLRUtime has passed 2^32 since the cache was emptied

historyVars == <<vars, usedBefore, clockWrapped>>

HistoryInit == Init /\ usedBefore = {} /\ clockWrapped = FALSE

ValidLines == { l \in Line : CacheLineDetail[l].valid = 1 }
Cached == { CacheLineDetail[l].sector : l \in ValidLines }

\* The sector asked for is now the last used; one that was evicted drops out.
Used(sector) ==
  /\ LET others == Cached' \ {sector}
     IN usedBefore' = (usedBefore \cap (others \X others)) \cup (others \X {sector})
  /\ clockWrapped' = (clockWrapped \/ Tick = 0)

HistoryNext ==
  \/ (CacheHit \/ CacheFill \/ CacheEvict) /\ Used(sectorNumber)
  \/ (diskWriteSector \/ PowerLoss) /\ usedBefore' = {} /\ clockWrapped' = FALSE
  \/ /\ \/ \E b \in Block : ReadBlock(b)
        \/ \E b \in Block, source \in Store!Buffer : WriteBlock(b, source)
        \/ \E s \in Sector : ReadOneSector(s)
     /\ UNCHANGED <<usedBefore, clockWrapped>>

HistorySpec == HistoryInit /\ [][HistoryNext]_historyVars

\* A line that is reused for another sector was the least recently used of
\* all lines, as long as the 32-bit clock has not wrapped (fs.cpp:65).  Holds
\* across hits, fills, flushes in mid-block and power losses.
EvictsLeastRecentlyUsed ==
  [][\A l \in Line :
       /\ ~clockWrapped
       /\ CacheLineDetail[l].valid = 1
       /\ CacheLineDetail'[l].valid = 1
       /\ CacheLineDetail'[l].sector # CacheLineDetail[l].sector
       => \A k \in Line \ {l} :
            <<CacheLineDetail[l].sector, CacheLineDetail[k].sector>> \in usedBefore
    ]_historyVars
=============================================================================
