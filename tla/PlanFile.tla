------------------------------- MODULE PlanFile -------------------------------
(***************************************************************************)
(* Flash plans (flash.c): how the lines of a plan file become targets, and *)
(* how the targets of the default plan become the table of motors.         *)
(* A line is a record: whether it opens a list item, its key, its value,   *)
(* and whether the parser of that key takes the value.  Comments and blank *)
(* lines are gone.  A field of the target under construction is the set    *)
(* of the values it was given: none, or the last one.                      *)
(***************************************************************************)
EXTENDS Naturals, Sequences, SequencesExt

CONSTANTS MaxTargets,   \* FLASH_PLAN_MAX_TARGETS
          MaxEntries,   \* MOTOR_MAP_MAX
          Types,        \* types that motor_types describes
          Files         \* names that end in .bin

Buses == 0 .. 6
Ids == 1 .. 8
Fields == {"index", "bus", "id", "version"}
Headers == {"firmware_dir", "firmware_base_url", "firmware_cache_dir"}

Unset == [index |-> {}, bus |-> {}, id |-> {}, version |-> {}]
Value(S) == CHOOSE v \in S : TRUE
Target(t) == [index |-> Value(t.index), bus |-> Value(t.bus),
              id |-> Value(t.id), version |-> Value(t.version)]
InRange(t) == t.index \subseteq 0 .. 99 /\ t.bus \subseteq Buses /\ t.id \subseteq Ids

(* flash_plan_finalize_target: a target none of whose fields is set is not *)
(* there, even if it was given a name.                                     *)
Finish(p) ==
  LET given == {k \in Fields : p.open[k] # {}} IN
  IF given = {} THEN p
  ELSE IF given = Fields /\ InRange(p.open) /\ Len(p.targets) < MaxTargets
       THEN [p EXCEPT !.targets = Append(@, Target(p.open))]
       ELSE [p EXCEPT !.bad = TRUE]

(* A line that opens an item first finishes the one before. *)
OpenItem(p) == IF p.inside THEN [Finish(p) EXCEPT !.open = Unset]
                           ELSE [p EXCEPT !.bad = TRUE]

TakeKey(p, l) ==
  CASE l.key = "targets" -> [p EXCEPT !.inside = TRUE]
    [] ~p.inside /\ l.key \in Headers /\ l.good -> [p EXCEPT !.headers = @ \cup {l.key}]
    [] p.inside /\ l.key \in Fields /\ l.good -> [p EXCEPT !.open[l.key] = {l.val}]
    [] p.inside /\ l.key = "name" /\ l.good -> p
    [] OTHER -> [p EXCEPT !.bad = TRUE]

ReadLine(p, l) ==
  LET q == IF l.item THEN OpenItem(p) ELSE p IN
  IF p.bad \/ q.bad THEN [p EXCEPT !.bad = TRUE] ELSE TakeKey(q, l)

Start == [inside |-> FALSE, headers |-> {}, open |-> Unset, targets |-> <<>>, bad |-> FALSE]

(* load_flash_plan_config *)
ReadLines(lines) ==
  LET read[n \in 0 .. Len(lines)] == IF n = 0 THEN Start ELSE ReadLine(read[n - 1], lines[n])
  IN read[Len(lines)]
Load(lines) ==
  LET p == Finish(ReadLines(lines)) IN
  [p EXCEPT !.bad = @ \/ p.targets = <<>>]

(* motor_map_add_entry takes a target of a known type, if there is room and *)
(* no target before it has its index, or its bus and id.                    *)
Clash(t, u) == t.index = u.index \/ (t.bus = u.bus /\ t.id = u.id)
Added(ts, i) ==
  /\ ts[i].version \in Types /\ i <= MaxEntries
  /\ \A j \in 1 .. i - 1 : ~Clash(ts[j], ts[i])

(* console_load_default_topology: the table of motors, or nothing if a      *)
(* target is refused.                                                       *)
Topology(lines) ==
  LET ts == Load(lines).targets
  IN IF Load(lines).bad \/ \E i \in DOMAIN ts : ~Added(ts, i) THEN <<>> ELSE ts

(* console_motor_by_bus_id, for a target of a plan: the first slot it names. *)
Named(e, t) == e.bus = t.bus /\ e.id = t.id
SlotsOf(es, t) ==
  {s \in DOMAIN es : Named(es[s], t) /\ \A r \in DOMAIN es : Named(es[r], t) => s <= r}
=============================================================================
