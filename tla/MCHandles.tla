----------------------------- MODULE MCHandles -----------------------------
EXTENDS Handles
CONSTANTS k1, k2, t1, t2, t3,
          dataset, freelist, block, pmr, import
\* A render target dataset that uses a free list, a sync block with the
\* sub-handle of its PMR, and a local import of that PMR in the process base.
MCConnOf == [t \in {t1, t2, t3} |-> IF t = t3 THEN k2 ELSE k1]
MCBase == [h \in {dataset, freelist, block, pmr, import} |->
             IF h = import THEN Process ELSE k1]
MCSubOf == [h \in {dataset, freelist, block, pmr, import} |->
              IF h = block THEN pmr ELSE None]
MCNeeds == [h \in {dataset, freelist, block, pmr, import} |->
              CASE h = dataset -> freelist [] h = import -> pmr [] OTHER -> None]
MCPins == [h \in {dataset, freelist, block, pmr, import} |->
             IF h = dataset THEN freelist ELSE None]
MCRank == [h \in {dataset, freelist, block, pmr, import} |->
             CASE h = dataset -> 1 [] h = freelist -> 2 [] h = block -> 3
               [] h = import -> 4 [] h = pmr -> 5]
=============================================================================
