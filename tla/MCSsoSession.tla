---------------------------- MODULE MCSsoSession ----------------------------
(* Instances of SsoSession for TLC.                                        *)
EXTENDS SsoSession, TLC
CONSTANTS p1, p2, p3, s1
MCSessionOf == [p \in Process |-> s1]
Symmetry == Permutations(Process)

(***************************************************************************)
(* View identifies states that no step and no property tells apart.  A     *)
(* local counts only while a later step or a property may read it.         *)
(* Generations, logins and role-credential keys are compared and never     *)
(* computed with, so each is replaced by its rank among the ones still in  *)
(* use; the counters they come from have bounds no run reaches.            *)
(***************************************************************************)
TokLive(p) == pc[p] \in
  {"stamp", "stampWrite", "cached", "leafCached", "token", "mint", "refresh",
   "redeem", "rotate", "write", "rejectTok", "rejectRole", "drop", "dropTok"}
NxtLive(p) == pc[p] \in
  {"stampWrite", "redeem", "rotate", "write", "rejectTok", "save", "saveWrite",
   "saveEnd", "unlockedEnd", "unlockedRm", "discardWrite"}
RecLive(p) == pc[p] \in {"saveLeaf", "assume", "saveFinal", "issued", "evict"}
LoginLive(p) == pc[p] \in
  {"browser", "save", "saveWrite", "saveEnd", "unlockedEnd", "unlockedRm",
   "poll", "peek", "reread", "clearRole", "clearTok", "lastRole", "lastTok",
   "discardWrite"}
FlagLive(p) == ~Ended(p) /\ ~RecLive(p)

View ==
  LET toks  == {t \in {token} \cup {tok[p] : p \in {q \in Process : TokLive(q)}}
                  \cup {nxt[p] : p \in {q \in Process : NxtLive(q) /\ pc[q] # "discardWrite"}}
                : t # None}
      roles == {r \in {role[k] : k \in CredKeys}
                  \cup {rec[p] : p \in {q \in Process : RecLive(q)}} : r # None}
      marks == {m \in {marker}
                  \cup {nxt[p] : p \in {q \in Process : pc[q] = "discardWrite"}}
                : m # None}
      gens   == {t.gen : t \in toks} \cup {r.gen : r \in roles} \cup {0}
      keys   == {r.key : r \in roles}
      logins == {t.of : t \in toks} \cup {r.of : r \in roles} \cup {cut}
                \cup {m.id : m \in marks}
                \cup {login[p] : p \in {q \in Process : LoginLive(q)}}
      Rank(S, x) == Cardinality({y \in S : y < x})
      VTok(t)  == IF t = None THEN 0
                  ELSE <<t.at, t.rt, Rank(gens, t.gen), Rank(logins, t.of), t.fits>>
      VRole(r) == IF r = None THEN 0
                  ELSE <<Rank(keys, r.key), Rank(gens, r.gen), Rank(logins, r.of)>>
      VMark(m) == IF m = None THEN 0 ELSE <<Rank(logins, m.id), m.pid, m.discard>>
      Locals(p) ==
        <<IF TokLive(p) THEN VTok(tok[p]) ELSE 0,
          IF NxtLive(p)
            THEN IF pc[p] = "discardWrite" THEN VMark(nxt[p]) ELSE VTok(nxt[p])
            ELSE 0,
          IF RecLive(p)
            THEN <<VRole(rec[p]), pc[p] = "evict" \/ rec[p].of = tok[p].of>> ELSE 0,
          IF LoginLive(p) THEN Rank(logins, login[p]) ELSE 0,
          IF FlagLive(p) THEN flag[p] ELSE 0,
          IF Ended(p) THEN 0 ELSE <<kind[p], ui[p]>> >>
  IN <<hold, pc, VTok(token), [k \in CredKeys |-> VRole(role[k])], VMark(marker),
       [p \in Process |-> Locals(p)], nTok, nAge, nCrash, nCLI,
       [a \in {t.at : t \in toks} |-> life[a]],
       spent \cap {t.rt : t \in toks},
       {Rank(logins, i) : i \in aged \cap logins},
       {Rank(logins, i) : i \in gaveUp \cap logins},
       Rank(logins, cut), replayed>>
=============================================================================
