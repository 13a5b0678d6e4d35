----------------------------- MODULE PeerGroup -----------------------------
(* The default peer set of a company (data/normalize/peers.py): who files   *)
(* under its SIC code, nearest in revenue, in scope.  An industry is        *)
(*   sic      "", "plain" or "bank" (a code 6xxx);                          *)
(*   members  the CIKs browse-edgar lists under the code;                   *)
(*   frames   [concept -> [cik -> size]] of the last closed year, where a   *)
(*            size is ten times the logarithm of the amount, Nothing when   *)
(*            the amount is not positive;                                   *)
(*   listings the ticker map of the SEC, in its order: <<ticker, cik, len>> *)
(*            with the ticker's length;                                     *)
(*   inScope  the tickers check_scope passes;                               *)
(*   provider the market data provider's own peers of the company;          *)
(*   ticker, cik, size of the company itself, Nothing for no revenue.       *)
(* Tickers are numbers, in alphabetical order.                              *)
EXTENDS Integers, Sequences, FiniteSets, SequencesExt, FiniteSetsExt

CONSTANTS MinPeers,    \* fewer is not a peer set: MIN_PEERS
          Limit        \* the most a caller is given: DEFAULT_LIMIT
ASSUME PeersAssumption == MinPeers \in Nat /\ Limit \in Nat /\ MinPeers <= Limit

Nothing == -1
\* Members and listings are lists, amounts are numbers or Nothing, and the
\* ticker map has each ticker once.
IsIndustry(ind) ==
    /\ ind.size \in Int
    /\ ind.members \in Seq(Range(ind.members))
    /\ ind.provider \in Seq(Range(ind.provider))
    /\ ind.listings \in Seq(Int \X Int \X Nat)
    /\ \A i, j \in DOMAIN ind.listings : ind.listings[i][1] = ind.listings[j][1] => i = j
    /\ DOMAIN ind.frames = {"Contract", "Revenues", "NetOfInterest"}
    /\ \A c \in DOMAIN ind.frames : \A cik \in DOMAIN ind.frames[c] : ind.frames[c][cik] \in Int

MaxLogDistance == 13       \* about twenty times the size
WidenedLogDistance == 20   \* a hundred times

RevenueConceptOrder(sic) ==
    IF sic = "bank" THEN <<"NetOfInterest", "Revenues", "Contract">> ELSE <<"Contract", "Revenues", "NetOfInterest">>

\* [cik -> size]: the first concept with a positive amount
IndustryRevenues(ind) ==
    LET order == RevenueConceptOrder(ind.sic)
        carries(k, cik) == cik \in DOMAIN ind.frames[order[k]] /\ ind.frames[order[k]][cik] # Nothing
        ciks == {cik \in UNION {DOMAIN ind.frames[c] : c \in DOMAIN ind.frames} : \E k \in DOMAIN order : carries(k, cik)}
    IN  [cik \in ciks |-> ind.frames[order[Min({k \in DOMAIN order : carries(k, cik)})]][cik]]

\* [cik -> ticker]: a shorter ticker takes the place of one seen earlier
PrimaryTickers(listings) ==
    LET of(cik) == {i \in DOMAIN listings : listings[i][2] = cik}
        shortest(cik) == {i \in of(cik) : \A j \in of(cik) : listings[i][3] <= listings[j][3]}
    IN  [cik \in {listings[i][2] : i \in DOMAIN listings} |-> listings[Min(shortest(cik))][1]]

SizeDistance(a, b) == IF a < b THEN b - a ELSE a - b

\* The numbers of a set, smallest first, and what a sequence has at them
InOrder(ids) ==
    CHOOSE s \in [1 .. Cardinality(ids) -> ids] : \A i, j \in DOMAIN s : i < j => s[i] < s[j]
Picked(s, ids) == [k \in DOMAIN InOrder(ids) |-> s[InOrder(ids)[k]]]

\* The other companies of the industry, each with its distance in size.  One
\* whose revenue is not known is left out, not ranked last.
PeerRows(ind) ==
    LET revenues == IndustryRevenues(ind)
        tickers == PrimaryTickers(ind.listings)
        ciks == {cik \in Range(ind.members) : cik # ind.cik /\ cik \in DOMAIN revenues /\ cik \in DOMAIN tickers}
    IN  {[ticker |-> tickers[cik], cik |-> cik,
          distance |-> IF ind.size = Nothing THEN 0 ELSE SizeDistance(revenues[cik], ind.size)] : cik \in ciks}

\* Mutant: ranked by ticker only
RankCandidates_Bug(ind) ==
    CHOOSE s \in [1 .. Cardinality(PeerRows(ind)) -> PeerRows(ind)] :
        \A i, j \in DOMAIN s : i < j => s[i].ticker < s[j].ticker

\* Nearest in size first, and then by ticker
Nearer(a, b) == a.distance < b.distance \/ (a.distance = b.distance /\ a.ticker < b.ticker)
RankCandidates(ind) ==
    CHOOSE s \in [1 .. Cardinality(PeerRows(ind)) -> PeerRows(ind)] :
        \A i, j \in DOMAIN s : i < j => Nearer(s[i], s[j])

InScope(ind, ticker) == ticker \in ind.inScope

\* One pass over the ranking: a company beyond the cutoff ends it
Within(ind, ranked, cutoff, seen) ==
    Picked(ranked, {i \in DOMAIN ranked :
                       /\ ind.size # Nothing => \A j \in 1 .. i : ranked[j].distance <= cutoff
                       /\ ranked[i].ticker \notin seen \cup {ind.ticker}
                       /\ InScope(ind, ranked[i].ticker)})

FirstOf(s, n) == SubSeq(s, 1, Min({n, Len(s)}))
Figures(ind, cik) == IF cik \in DOMAIN IndustryRevenues(ind) THEN cik ELSE Nothing

\* The provider's list, when the industry did not give enough.  A ticker that
\* is not the primary one of its company brings no figures.
ProviderFallback(ind, room, seen) ==
    LET tickers == PrimaryTickers(ind.listings)
        fresh == {i \in DOMAIN ind.provider :
                     /\ ind.provider[i] \notin seen \cup {ind.ticker} /\ InScope(ind, ind.provider[i])
                     /\ \A j \in 1 .. i - 1 : ind.provider[j] # ind.provider[i]}
        owner(t) == {cik \in DOMAIN tickers : tickers[cik] = t}
        peer(t) == [ticker |-> t, by |-> "provider", distance |-> 0,
                    figures |-> IF owner(t) = {} THEN Nothing ELSE Figures(ind, CHOOSE cik \in owner(t) : TRUE)]
    IN  FirstOf(Picked([i \in DOMAIN ind.provider |-> peer(ind.provider[i])], fresh), room)

\* Without a SIC code there is no industry to look in
Classified(ind) == ind.sic # ""

\* The peer set and what is said of it
Select(ind) ==
    LET ranked == RankCandidates(ind)
        peer(row, by) == [ticker |-> row.ticker, by |-> by, distance |-> row.distance, figures |-> Figures(ind, row.cik)]
        near == FirstOf(Within(ind, ranked, MaxLogDistance, {}), Limit)
        short == Len(near) < MinPeers
        wide == IF short
                THEN FirstOf(Within(ind, ranked, WidenedLogDistance, {near[i].ticker : i \in DOMAIN near}),
                             Limit - Len(near))
                ELSE <<>>
        chosen == [i \in DOMAIN near |-> peer(near[i], "size")] \o [i \in DOMAIN wide |-> peer(wide[i], "relaxed")]
        vendor == IF Len(chosen) < MinPeers
                  THEN ProviderFallback(ind, Limit - Len(chosen), {chosen[i].ticker : i \in DOMAIN chosen})
                  ELSE <<>>
        gap(name, said) == IF said THEN {name} ELSE {}
    IN  IF ~Classified(ind) THEN [peers |-> <<>>, gaps |-> {"no sic"}]
        ELSE [peers |-> chosen \o vendor,
              gaps |-> gap("no revenues", IndustryRevenues(ind) = <<>>) \cup gap("cutoff relaxed", short)
                           \cup gap("few peers", Len(chosen \o vendor) < MinPeers)]
=============================================================================
