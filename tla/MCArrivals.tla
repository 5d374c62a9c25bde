----------------------------- MODULE MCArrivals -----------------------------
(* Arrivals with interchangeable tries and files.                          *)
EXTENDS Arrivals, TLC

TriesAlike ==
  {f @@ g @@ h : f \in Permutations(Sends), g \in Permutations(Rounds), h \in Permutations(Keys)}
=============================================================================
