------------------------- MODULE VisitedLinkProbing -------------------------
(***************************************************************************)
(* A renderer looks a link up in the table it shares with the browser      *)
(* while DeleteFingerprint empties a run of slots and puts the rest back:  *)
(* each store of the browser, and each load of the renderer, is a step.    *)
(* Stores are taken in program order and loads of a fingerprint as whole.  *)
(***************************************************************************)
EXTENDS VisitedLinkTable

(* A deletion that starts the whole table afresh instead of one run.     *)
Stores_WholeTable(T, n, fp) ==
  LET kept == {i \in 0..(n - 1) : T[i] \notin {0, fp}}
      f[k \in 0..(n + Cardinality(kept))] ==
        IF k = 0 THEN T
        ELSE IF k <= n THEN [f[k - 1] EXCEPT ![k - 1] = 0]
        ELSE AddFingerprint(f[k - 1], n, T[CHOOSE i \in kept :
               Cardinality({j \in kept : j <= i}) = k - n])
  IN  f

(* The contents of the memory after each store of a deletion.              *)
Stores(T, n, fp) ==
  LET h == HashFingerprint(fp, n)
      gone == Cardinality(Cleared(T, n, h))
      back == Shuffled(T, n, fp)
      memory[k \in 0..(gone + Len(back))] ==
        IF k = 0 THEN T
        ELSE IF k <= gone THEN [memory[k - 1] EXCEPT ![After(h, k - 1, n)] = 0]
        ELSE IF back[k - gone] = 0 THEN memory[k - 1]
        ELSE AddFingerprint(memory[k - 1], n, back[k - gone])
  IN  memory

(* When the renderer may make its d-th probe for fp, counted in stores: it *)
(* went on from the one before, at that time or earlier.                   *)
Probes(memory, n, fp) ==
  LET at[d \in 0..n] ==
        IF d = 0 THEN DOMAIN memory
        ELSE LET before == {u \in at[d - 1] :
                              memory[u][Probe(fp, d - 1, n)] \notin {0, fp}}
             IN  {t \in DOMAIN memory : \E u \in before : u <= t}
  IN  at

MayStopAt(memory, n, fp, value) ==
  LET at == Probes(memory, n, fp) IN
  \E d \in 0..(n - 1) : \E t \in at[d] : memory[t][Probe(fp, d, n)] = value

MayFind(memory, n, fp) == MayStopAt(memory, n, fp, fp)
MayMiss(memory, n, fp) == MayStopAt(memory, n, fp, 0)
MayWrap(memory, n, fp) == Probes(memory, n, fp)[n] # {}

-----------------------------------------------------------------------------

(* While a link is deleted from T, a renderer never finds a link that was  *)
(* not in the table, always finds the ones outside the run that is emptied,*)
(* never goes round the whole table, and when the deletion is over it      *)
(* finds exactly the links that are left.                                  *)
LookupsRight(T, n, Fingerprints) ==
  \A fp \in Members(T) :
    LET memory == Stores(T, n, fp)
        end == memory[Cardinality(DOMAIN memory) - 1]
        moved == {T[i] : i \in Cleared(T, n, HashFingerprint(fp, n))}
    IN  \A x \in Fingerprints :
          /\ MayFind(memory, n, x) => x \in Members(T)
          /\ MayMiss(memory, n, x) => x \notin Members(T) \ moved
          /\ ~MayWrap(memory, n, x)
          /\ IsVisited(end, n, x) <=> x \in Members(T) \ {fp}
=============================================================================
