--------------------------- MODULE WorkspaceOrder ---------------------------
(***************************************************************************)
(* How the picker orders workspaces, and how pinning and moving one        *)
(* rewrites the preferences shared with the web terminal (menu.rs).        *)
(*                                                                         *)
(* A workspace is a pair <<agent, name>> of numbers, in their order.       *)
(* Preferences are a record: `order` is a function from workspaces to      *)
(* their entries, and `web` stands for every field the web terminal owns.  *)
(***************************************************************************)
EXTENDS Naturals, Sequences, FiniteSets, SequencesExt

\* The members of S in the order of the pairs in `less`
Sorted(S, less) ==
  CHOOSE s \in [1 .. Cardinality(S) -> S] :
    \A i, j \in DOMAIN s : i < j => <<s[i], s[j]>> \in less

Position(s, w) == CHOOSE i \in DOMAIN s : s[i] = w

\* The members of S as they lie in `sorted`
Part(sorted, S) ==
  Sorted(S, {p \in S \X S : Position(sorted, p[1]) < Position(sorted, p[2])})

NoPreferences == [order |-> <<>>, web |-> 0]

parse_order(prefs) == prefs.order

is_pinned(order, w) == w \in DOMAIN order /\ order[w].pinned

\* `items` is the hub's answer: workspace -> whether its agent is online.
default_less(items, a, b) ==
  \/ items[a] /\ ~items[b]
  \/ /\ items[a] = items[b]
     /\ a[1] < b[1] \/ (a[1] = b[1] /\ a[2] < b[2])

\* A bug the properties must catch: workspaces that can be opened go first,
\* whatever the user said.
online_less(order, items, a, b) ==
  \/ items[a] /\ ~items[b]
  \/ items[a] = items[b] /\ a \in DOMAIN order /\ b \notin DOMAIN order
  \/ /\ items[a] = items[b] /\ {a, b} \subseteq DOMAIN order
     /\ order[a].rank < order[b].rank
  \/ {a, b} \cap DOMAIN order = {} /\ default_less(items, a, b)

listed_less(order, items, a, b) ==
  LET ranked == DOMAIN order IN
  \/ is_pinned(order, a) /\ ~is_pinned(order, b)
  \/ /\ is_pinned(order, a) = is_pinned(order, b)
     /\ \/ a \in ranked /\ b \notin ranked
        \/ /\ {a, b} \subseteq ranked
           /\ \/ order[a].rank < order[b].rank
              \/ order[a].rank = order[b].rank /\ default_less(items, a, b)
        \/ {a, b} \cap ranked = {} /\ default_less(items, a, b)

sort_workspaces(order, items) ==
  LET listed == DOMAIN items
  IN  Sorted(listed,
             {p \in listed \X listed : listed_less(order, items, p[1], p[2])})

\* A bug the properties must catch: entries not listed now are forgotten, and
\* the fields of the web terminal with them.
replace_order(prefs, keys, pinned) ==
  [NoPreferences EXCEPT !.order =
     [w \in ToSet(keys) |-> [pinned |-> w \in pinned,
                             rank   |-> Position(keys, w)]]]

\* Ranks are given anew to the workspaces listed; other entries stay.
apply_order(prefs, keys, pinned) ==
  [prefs EXCEPT !.order =
     [w \in DOMAIN @ \cup ToSet(keys) |->
        IF w \in ToSet(keys)
        THEN [pinned |-> w \in pinned, rank |-> Position(keys, w)]
        ELSE @[w]]]

PinnedOf(prefs, sorted) ==
  {w \in ToSet(sorted) : is_pinned(parse_order(prefs), w)}

\* The order after a pin is toggled: the workspace lies at the edge of its
\* new group.
toggled_keys(prefs, sorted, w) ==
  LET pinned == PinnedOf(prefs, sorted) \ {w}
      rest == ToSet(sorted) \ (pinned \cup {w})
  IN  Part(sorted, pinned) \o <<w>> \o Part(sorted, rest)

toggle_pin(prefs, sorted, w) ==
  LET pinned == PinnedOf(prefs, sorted)
  IN  apply_order(prefs, toggled_keys(prefs, sorted, w),
                  IF w \in pinned THEN pinned \ {w} ELSE pinned \cup {w})

\* The neighbours of a workspace in its own group, pinned or not.
GroupOf(prefs, sorted, w) ==
  LET pinned == PinnedOf(prefs, sorted)
  IN  Part(sorted, IF w \in pinned THEN pinned ELSE ToSet(sorted) \ pinned)

SwappedWith(prefs, sorted, w, up) ==
  LET i == Position(GroupOf(prefs, sorted, w), w)
  IN  IF up THEN i - 1 ELSE i + 1

\* False at the edge of the group: nothing changes and nothing is saved.
can_move(prefs, sorted, w, up) ==
  SwappedWith(prefs, sorted, w, up) \in DOMAIN GroupOf(prefs, sorted, w)

moved_keys(prefs, sorted, w, up) ==
  LET pinned == PinnedOf(prefs, sorted)
      group == GroupOf(prefs, sorted, w)
      other == Part(sorted, ToSet(sorted) \ ToSet(group))
      j == SwappedWith(prefs, sorted, w, up)
      i == IF up THEN j + 1 ELSE j - 1
      swapped == [group EXCEPT ![i] = group[j], ![j] = group[i]]
  IN  IF w \in pinned THEN swapped \o other ELSE other \o swapped

move_workspace(prefs, sorted, w, up) ==
  apply_order(prefs, moved_keys(prefs, sorted, w, up),
              PinnedOf(prefs, sorted))
=============================================================================
