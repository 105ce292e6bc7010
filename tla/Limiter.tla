------------------------------ MODULE Limiter -------------------------------
(***************************************************************************)
(* The limiter of accepted links (transport/src/core.js LinkLimiter) and   *)
(* the links that hold its slots (transport/src/ake.js): half-open, with   *)
(* an opened first message, and authenticated.  A full tier evicts its     *)
(* stalest member; the cap on one source's links never evicts.  Every      *)
(* link here has a source.                                                 *)
(***************************************************************************)
EXTENDS Integers, Sequences, FiniteSets, SequencesExt

CONSTANTS
    Sources,
    maxPerSource,
    maxTier      \* by tier: how many it holds

Tiers == {"unverified", "verified", "authed"}

ASSUME LimiterAssumption == maxPerSource \in Nat /\ maxTier \in [Tiers -> Nat]

VARIABLES
    slot,        \* the slots acquired: [source, tier, released, up], up while its link is
    books,       \* by tier: its slots in eviction order
    perSource    \* by source: the slots it holds

limiterVars == <<slot, books, perSource>>

Slots == 1..Len(slot)
LimiterInit == /\ slot = << >> /\ books = [t \in Tiers |-> << >>]
               /\ perSource = [s \in Sources |-> 0]

(* The limiter through the calls of one turn. *)
Limits == [slot |-> slot, books |-> books, perSource |-> perSource]
LimitsAre(l) == slot' = l.slot /\ books' = l.books /\ perSource' = l.perSource

(* A book without slot i, which it has at most once. *)
Delete(q, i) == IF Contains(q, i) THEN RemoveAt(q, CHOOSE k \in 1..Len(q) : q[k] = i) ELSE q
unbook(l, i) == [l EXCEPT !.books[l.slot[i].tier] = Delete(@, i)]

(* release, for good: by an eviction, and again by the link that ends. *)
ReleasedNever(l, i) == FALSE
Released(l, i) == l.slot[i].released
Release(l, i) == IF Released(l, i) THEN l
                 ELSE [unbook(l, i) EXCEPT !.slot[i].released = TRUE, !.perSource[l.slot[i].source] = IF @ = 0 THEN 0 ELSE @ - 1]
(* The link's teardown. *)
Ended(l, i) == Release([l EXCEPT !.slot[i].up = FALSE], i)

(* makeRoom: the stalest of a full tier is evicted, its link aborted. *)
Room(l, t) == Len(l.books[t]) < maxTier[t] \/ l.books[t] # << >>
makeRoom(l, t) == IF Len(l.books[t]) < maxTier[t] THEN l
                  ELSE LET victim == Head(l.books[t]) IN Ended(Release(l, victim), victim)

book(l, i, t) == [l EXCEPT !.slot[i].tier = t, !.books[t] = Append(@, i)]

(* An accept: acquire, or its link is refused. *)
Accept(s) ==
    /\ perSource[s] < maxPerSource /\ Room(Limits, "unverified")
    /\ LET l == makeRoom(Limits, "unverified")
           new == [source |-> s, tier |-> "unverified", released |-> FALSE, up |-> TRUE]
       IN LimitsAre(book([l EXCEPT !.slot = Append(@, new), !.perSource[s] = @ + 1], Len(slot) + 1, "unverified"))

(* promote and hold: to the next tier.  With no room at all the first      *)
(* leaves the link stalled, the second ends it.                            *)
Move(i, from, to) ==
    /\ slot[i].up /\ slot[i].tier = from
    /\ IF ~Room(Limits, to) THEN to = "authed" /\ LimitsAre(Ended(Limits, i))
       ELSE LimitsAre(book(unbook(makeRoom(Limits, to), i), i, to))
Promote(i) == Move(i, "unverified", "verified")
Hold(i) == Move(i, "verified", "authed")

(* Traffic: to the tail. *)
Touch(i) == /\ slot[i].up /\ slot[i].tier = "authed"
            /\ LimitsAre(book(unbook(Limits, i), i, "authed"))

LinkEnds(i) == slot[i].up /\ LimitsAre(Ended(Limits, i))
-----------------------------------------------------------------------------
(* However a link ends, evicted by another, refused or lost, its slot is   *)
(* given back once (release): the slots of links that are up are in their  *)
(* tiers, each once and within the tier's budget, and every source is      *)
(* charged for exactly its own.                                            *)
SlotsExact ==
    /\ \A t \in Tiers : /\ IsInjective(books[t]) /\ Len(books[t]) <= maxTier[t]
                        /\ ToSet(books[t]) = {i \in Slots : slot[i].up /\ slot[i].tier = t}
    /\ \A s \in Sources : perSource[s] = Cardinality({i \in Slots : slot[i].up /\ slot[i].source = s})
=============================================================================
