---------------------------- MODULE BoardMutations ----------------------------
(* The reducer of a project's board (lib/board/mutations.ts), which the       *)
(* server and every browser tab run on their own copies, and the checks of a  *)
(* request (lib/board/validation.ts).                                         *)
(*                                                                            *)
(* An arrangement names conversations by the path of their transcript:        *)
(* manual, expanded and hidden lists, the manual entries a user pinned, and   *)
(* the aliases that lead from a superseded path to its successor. mode stands *)
(* for the fields that no list depends on (view mode, panel, favorites).      *)
EXTENDS Naturals, FiniteSets, Sequences, SequencesExt

CONSTANTS
  Paths,    \* paths of transcripts
  ListCap,  \* longest list the server accepts in a mutation
  Modes,    \* values of mode, beside Null
  Null      \* also what the reducer yields where the code throws

Aliases == UNION {[S -> Paths] : S \in SUBSET Paths}
Arrangement ==
  [aliases : Aliases, manual : Seq(Paths), explicitManual : Seq(Paths),
   hidden : Seq(Paths), expanded : Seq(Paths), mode : Modes \cup {Null}]

ASSUME ReducerAssumption ==
  IsFiniteSet(Paths) /\ ListCap \in Nat /\ Null \notin Arrangement

IsMutation(m) ==
  \/ m.kind = "close" /\ m.path \in Paths
  \/ m.kind = "restore" /\ m.path \in Paths /\ m.placement \in {"auto", "manual", "expanded"}
  \/ m.kind = "reconcile-roots" /\ m.roots \in Seq(Paths) /\ m.removeManual \in Seq(Paths)
  \/ m.kind = "remap-paths" /\ m.pairs \in Aliases
  \/ m.kind = "set-presentation" /\ m.mode \in Modes \cup {Null}

emptyArrangement ==
  [aliases |-> <<>>, manual |-> <<>>, explicitManual |-> <<>>, hidden |-> <<>>,
   expanded |-> <<>>, mode |-> Null]

(* Op(v), with v evaluated once.                                              *)
once(v, Op(_)) == CHOOSE result \in {Op(x) : x \in {v}} : TRUE

---------------------------------------------------------------------------
(* Lists of paths and aliases.                                                *)

unique(list) ==
  LET kept[n \in 0 .. Len(list)] ==
        IF n = 0 THEN <<>>
        ELSE IF \E k \in 1 .. n - 1 : list[k] = list[n] THEN kept[n - 1]
        ELSE Append(kept[n - 1], list[n])
  IN kept[Len(list)]

(* The members of a list that are in kept, in their order.                    *)
only(list, kept) ==
  LET chosen[n \in 0 .. Len(list)] ==
        IF n = 0 THEN <<>>
        ELSE IF list[n] \in kept THEN Append(chosen[n - 1], list[n])
        ELSE chosen[n - 1]
  IN chosen[Len(list)]

without(list, gone) == only(list, Paths \ gone)

(* Where a path leads; in a cycle, some path that still has an alias.         *)
resolvePath(p, aliases) ==
  LET walk[n \in 0 .. Cardinality(Paths)] ==
        IF n = 0 THEN p
        ELSE once(walk[n - 1], LAMBDA x : IF x \in DOMAIN aliases THEN aliases[x] ELSE x)
  IN IF p \in DOMAIN aliases THEN walk[Cardinality(Paths)] ELSE p

cyclic(aliases) == \E p \in DOMAIN aliases : resolvePath(p, aliases) \in DOMAIN aliases

(* Mutant: lists keep the names they had.                                     *)
asNamed(list, aliases) == list
resolveAll(list, aliases) == [i \in DOMAIN list |-> resolvePath(list[i], aliases)]

(* Lists name only where paths lead, once each, and a hidden path appears in  *)
(* no other list.                                                             *)
canonical(board, aliases, hidden) ==
  LET visible(list) == without(unique(resolveAll(list, aliases)), ToSet(hidden))
      manual == visible(board.manual)
  IN [board EXCEPT !.aliases = [p \in DOMAIN aliases |-> resolvePath(p, aliases)],
                   !.hidden = hidden, !.manual = manual, !.expanded = visible(@),
                   !.explicitManual = only(visible(@), ToSet(manual))]

normalized(board, aliases) ==
  IF cyclic(aliases) THEN Null
  ELSE once(unique(resolveAll(board.hidden, aliases)),
            LAMBDA hidden : canonical(board, aliases, hidden))

normalize(board, aliases) ==
  once(board, LAMBDA b : once(aliases, LAMBDA a : normalized(b, a)))

---------------------------------------------------------------------------
(* The mutations. A path given by a tab is resolved before it is used.        *)

close(board, p) ==
  normalize([board EXCEPT !.manual = without(@, {p}), !.expanded = without(@, {p}),
                          !.explicitManual = without(@, {p}), !.hidden = unique(Append(@, p))],
            board.aliases)

restore(board, p, placement) ==
  LET shown == [board EXCEPT !.hidden = without(@, {p}), !.explicitManual = without(@, {p})]
      unplaced == [shown EXCEPT !.manual = without(@, {p}), !.expanded = without(@, {p})]
  IN normalize(CASE placement = "auto"     -> shown
                 [] placement = "manual"   -> [unplaced EXCEPT !.manual = Append(@, p),
                                                               !.explicitManual = Append(@, p)]
                 [] placement = "expanded" -> [unplaced EXCEPT !.expanded = Append(@, p)],
               board.aliases)

(* Mutant: a root that is seen is shown, closed or not.                       *)
reconcileRootsShown(board, roots, removeManual) ==
  LET seen == unique(resolveAll(roots, board.aliases))
  IN normalize([board EXCEPT !.manual = @ \o seen, !.hidden = without(@, ToSet(seen))],
               board.aliases)
(* Roots that are not on the board yet are put into manual; those that a user *)
(* closed, and those that others lead to, stay as they are.                   *)
reconcileRoots(board, roots, removeManual) ==
  LET lead(p) == resolvePath(p, board.aliases)
      removed == {lead(p) : p \in ToSet(removeManual)}
      manual == without(board.manual, removed)
      present == ToSet(manual) \cup ToSet(board.hidden)
                   \cup {lead(board.aliases[p]) : p \in DOMAIN board.aliases}
      seeded == without(unique(resolveAll(roots, board.aliases)), present)
  IN normalize([board EXCEPT !.manual = manual \o seeded,
                             !.explicitManual = without(@, removed)], board.aliases)

(* pairs maps superseded paths to their successors, which take the place of   *)
(* their predecessors and lose the one they had meanwhile.                    *)
remapPaths(board, pairs) ==
  LET lead(p) == resolvePath(p, board.aliases)
      active == {p \in DOMAIN pairs : lead(p) # lead(pairs[p])}
      sources == {lead(p) : p \in DOMAIN pairs}
      targets == {lead(pairs[p]) : p \in active}
      kept(list) ==
        only(list, {p \in Paths : lead(p) \notin targets \/ lead(p) \in sources})
  IN normalize([board EXCEPT !.manual = kept(@), !.explicitManual = kept(@)],
               [p \in active \cup DOMAIN board.aliases |->
                  IF p \in active THEN pairs[p] ELSE board.aliases[p]])

reduce(board, m) ==
  CASE m.kind = "close"   -> close(board, resolvePath(m.path, board.aliases))
    [] m.kind = "restore" -> restore(board, resolvePath(m.path, board.aliases), m.placement)
    [] m.kind = "reconcile-roots"  -> reconcileRoots(board, m.roots, m.removeManual)
    [] m.kind = "remap-paths"      -> remapPaths(board, m.pairs)
    [] m.kind = "set-presentation" -> normalize([board EXCEPT !.mode = m.mode], board.aliases)

applyBoardMutations(board, mutations) ==
  LET after[n \in 0 .. Len(mutations)] ==
        IF n = 0 THEN normalize(board, board.aliases)
        ELSE once(after[n - 1], LAMBDA b : IF b = Null THEN Null ELSE reduce(b, mutations[n]))
  IN after[Len(mutations)]

(* A whole arrangement written at once: a closed path stays closed.           *)
applyLegacyPatch(board, prefs) ==
  normalize([board EXCEPT !.manual = prefs.manual, !.explicitManual = prefs.manual,
                          !.expanded = prefs.expanded, !.mode = prefs.mode,
                          !.hidden = unique(@ \o prefs.hidden)], board.aliases)

---------------------------------------------------------------------------
(* What the server refuses in a request whatever its board says.              *)

tooLong(m) ==
  m.kind = "reconcile-roots" /\ (Len(m.roots) > ListCap \/ Len(m.removeManual) > ListCap)

sourcesOf(m) == IF m.kind = "remap-paths" THEN DOMAIN m.pairs ELSE {}
allPairs(mutations) ==
  [p \in UNION {sourcesOf(mutations[i]) : i \in DOMAIN mutations} |->
     mutations[CHOOSE i \in DOMAIN mutations : p \in sourcesOf(mutations[i])].pairs[p]]

validBatch(mutations) ==
  /\ \A i \in DOMAIN mutations : ~tooLong(mutations[i])
  /\ \A i, j \in DOMAIN mutations :
       i # j => sourcesOf(mutations[i]) \cap sourcesOf(mutations[j]) = {}
  /\ ~cyclic(allPairs(mutations))

---------------------------------------------------------------------------
isHidden(board, p) == resolvePath(p, board.aliases) \in ToSet(board.hidden)

(* The form the reducer promises: canonical, so that two copies with the same *)
(* content are the same text, and a closed conversation is nowhere on show.   *)
IsNormal(board) ==
  /\ board \in Arrangement
  /\ \A p \in DOMAIN board.aliases : board.aliases[p] \notin DOMAIN board.aliases
  /\ \A list \in {board.manual, board.explicitManual, board.hidden, board.expanded} :
       /\ ToSet(list) \cap DOMAIN board.aliases = {}
       /\ \A i, j \in DOMAIN list : list[i] = list[j] => i = j
  /\ ToSet(board.hidden) \cap (ToSet(board.manual) \cup ToSet(board.expanded)) = {}
  /\ ToSet(board.explicitManual) \subseteq ToSet(board.manual)
=============================================================================
