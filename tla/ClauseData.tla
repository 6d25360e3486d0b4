----------------------------- MODULE ClauseData -----------------------------
(***************************************************************************)
(* xo.CDat, the memory of the clauses: words in one array, for each clause *)
(* a packed header, its literals and a LitNull.  The header keeps the size *)
(* of the clause modulo 2^SzBits.  Cgc.tla speaks of clauses in sequence;  *)
(* here the memory is shown to be one, for a client that keeps locations   *)
(* and relocates them as Cgc does.                                         *)
(*                                                                         *)
(* The first word is mem[1]; a location is the index of the first literal. *)
(***************************************************************************)
EXTENDS Integers, Sequences, SequencesExt, TLC

CONSTANTS
  SzBits, LbdBits, HeatBits, \* the widths in a header, 5, 4 and 22
  DataClauses,               \* the literals of the clauses to store
  Lbds,                      \* and their literal block distances
  MaxStored,                 \* bound on how many are stored
  MaxBumpInc                 \* bound on CDat.bumpInc

ASSUME WidthAssumption == {SzBits, LbdBits, HeatBits} \subseteq Nat \ {0}

VARIABLES
  mem,     \* CDat.D[:Len]
  clsLen,  \* CDat.ClsLen
  incr,    \* CDat.bumpInc
  stored,  \* what the client stored, in order
  locs     \* the locations where it is, as the client knows them

dataVars == <<mem, clsLen, incr, stored, locs>>

DataInit == mem = <<>> /\ clsLen = 0 /\ incr = 1 /\ stored = <<>> /\ locs = <<>>

-----------------------------------------------------------------------------
SzMod == 2 ^ SzBits
LbdMod == 2 ^ LbdBits
HeatMod == 2 ^ HeatBits
HeatUnit == SzMod * LbdMod
LrnBit == HeatUnit * HeatMod

MakeChd(learnt, lbd, sz) ==
  (IF learnt THEN LrnBit ELSE 0) + (sz % SzMod) + SzMod * (lbd % LbdMod)

SzOf(h) == h % SzMod
LbdOf(h) == (h \div SzMod) % LbdMod
HeatOf(h) == (h \div HeatUnit) % HeatMod
Learnt(h) == h >= LrnBit

(* Another heat in the header: what is too much for its bits is or-ed into *)
(* the learnt bit.                                                         *)
WithHeat(h, ht) ==
  (h % HeatUnit) + HeatUnit * (ht % HeatMod)
    + (IF Learnt(h) \/ (ht \div HeatMod) % 2 = 1 THEN LrnBit ELSE 0)

Cool(h) == WithHeat(h, HeatOf(h) \div 2)

(* CDat.Next: the end of a clause is looked for at the sizes with the      *)
(* modulus of the header, and the next location is behind its end and the  *)
(* next header.                                                            *)
Next(m, loc) ==
  LET at(i) == loc + i * SzMod + SzOf(m[loc - 1])
      i     == CHOOSE i \in 0 .. Len(m) : m[at(i)] = 0 /\ \A k \in 0 .. (i - 1) : m[at(k)] # 0
  IN  at(i) + 2

(* CDat.AddLits. *)
AddLits(ms, learnt, lbd) ==
  /\ Len(stored) < MaxStored
  /\ mem' = mem \o <<MakeChd(learnt, lbd, Len(ms))>> \o ms \o <<0>>
  /\ locs' = Append(locs, Len(mem) + 2)
  /\ stored' = Append(stored, [ms |-> ms, learnt |-> learnt, lbd |-> lbd])
  /\ clsLen' = clsLen + 1
  /\ UNCHANGED incr

(* Cdb.Bump, which halves all heats when one is at its greatest. *)
BumpClause(k) ==
  LET p  == locs[k] - 1
      ht == HeatOf(mem[p]) + incr
      m  == [mem EXCEPT ![p] = WithHeat(@, ht)]
  IN  /\ IF ht = HeatMod - 1
         THEN /\ mem' = [q \in DOMAIN m |-> IF \E l \in Range(locs) : q = l - 1
                                            THEN Cool(m[q]) ELSE m[q]]
              /\ incr' = incr \div 2
         ELSE mem' = m /\ UNCHANGED incr
      /\ UNCHANGED <<clsLen, stored, locs>>

(* CDat.Decay: later bumps count more. *)
DataDecay ==
  /\ incr + 5 <= MaxBumpInc /\ incr' = incr + 5
  /\ UNCHANGED <<mem, clsLen, stored, locs>>

(* Mutant: the next to remove is always the first. *)
NextRmFirst(rm, i) == rm[1]

(* The next location to remove, after the i-th. *)
NextRm(rm, i) == IF i < Len(rm) THEN rm[i + 1] ELSE 0

(* CDat.Compact, from the i-th location to remove: clauses from cur are    *)
(* copied to dst, over what is removed; map says where they go, 0 nowhere. *)
RECURSIVE CopyDown(_, _, _, _, _, _)
CopyDown(m, rm, i, dst, cur, map) ==
  IF cur > Len(m) THEN [mem |-> SubSeq(m, 1, dst - 1), map |-> map]
  ELSE LET nxt == Next(m, cur)
       IN  IF cur = NextRm(rm, i)
           THEN CopyDown(m, rm, i + 1, dst, nxt, map @@ (cur :> 0))
           ELSE CopyDown([q \in DOMAIN m |-> IF q \in dst .. (dst + nxt - cur - 1)
                                             THEN m[q - dst + cur - 1] ELSE m[q]],
                         rm, i, dst + nxt - cur, nxt, map @@ (cur :> dst + 1))

(* relocateSlice: an unmapped location stays, one mapped to 0 is dropped. *)
Relocated(s, map) ==
  SelectSeq([i \in DOMAIN s |-> IF s[i] \in DOMAIN map THEN map[s[i]] ELSE s[i]],
            LAMBDA l : l # 0)

Compact(R) ==
  LET rm   == SetToSortSeq(R, <)
      c    == CopyDown(mem, rm, 1, rm[1] - 1, Next(mem, rm[1]), rm[1] :> 0)
      kept == SetToSortSeq({k \in DOMAIN locs : locs[k] \notin R}, <)
  IN  /\ mem' = c.mem /\ locs' = Relocated(locs, c.map)
      /\ stored' = [k \in DOMAIN kept |-> stored[kept[k]]]
      /\ clsLen' = clsLen - Len(rm)
      /\ UNCHANGED incr

DataNext ==
  \/ \E ms \in DataClauses, learnt \in BOOLEAN, lbd \in Lbds : AddLits(ms, learnt, lbd)
  \/ \E k \in DOMAIN stored : BumpClause(k)
  \/ DataDecay
  \/ \E R \in SUBSET Range(locs) : R # {} /\ Compact(R)

DataSpec == DataInit /\ [][DataNext]_dataVars

-----------------------------------------------------------------------------
RECURSIVE Walk(_)
Walk(loc) == IF loc > Len(mem) THEN <<>> ELSE <<loc>> \o Walk(Next(mem, loc))

(* The memory is the sequence of the stored clauses, at the relocated      *)
(* locations and nowhere else, with their literals and their headers: a    *)
(* size that does not fit, a heat that overflows and clauses that are      *)
(* copied over each other destroy nothing.  (An added clause can become    *)
(* learnt in its header, which only tests read.)                           *)
ClauseList ==
  /\ Walk(2) = locs
  /\ clsLen = Len(stored) /\ Len(locs) = clsLen
  /\ \A k \in DOMAIN stored :
       LET h == mem[locs[k] - 1]
       IN  /\ SubSeq(mem, locs[k], Next(mem, locs[k]) - 3) = stored[k].ms
           /\ SzOf(h) = Len(stored[k].ms) % SzMod
           /\ LbdOf(h) = stored[k].lbd % LbdMod
           /\ stored[k].learnt => Learnt(h)
=============================================================================
