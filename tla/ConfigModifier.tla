--------------------------- MODULE ConfigModifier ---------------------------
(***************************************************************************)
(* The config_dynamic_modifier_node: clicks in RViz are collected into the *)
(* area whose turn it is, and a complete area is written into the YAML     *)
(* configuration file.                                                     *)
(*                                                                         *)
(* One thread does all of it.  The file outlives the process, so every     *)
(* access to it is a step of its own, and the process may end between two  *)
(* of them and be started again.  Clicks are numbered, and a click stands  *)
(* for its coordinates; two clicks in the same place are left out, they    *)
(* only make a write that changes nothing.                                 *)
(***************************************************************************)
EXTENDS Naturals, Sequences, FiniteSets, SequencesExt

CONSTANTS
  MaxClicks,   (* bound on the clicks                                      *)
  MaxFaults,   (* bound on the crashes and failed file accesses            *)
  Present,     (* the parameters the configuration file holds              *)
  Configured   (* parameter_points_count as the configuration sets it      *)

Names == 0 .. 11  (* parameter_names_, by index                            *)

RemovedAreas == 0 .. 3

VARIABLES
  area,     (* current_area_index_                                         *)
  points,   (* current_polygon_points_                                     *)
  writing,  (* the parameters still to write for the complete area         *)
  at,       (* where the callback is                                       *)
  content,  (* new_content                                                 *)
  file,     (* the parameters in the file and their values                 *)
  clicks,   (* clicks so far                                               *)
  faults    (* crashes and failed file accesses so far                     *)

memory == <<area, points, writing, at, content>>
vars == <<memory, file, clicks, faults>>

Started ==
  /\ area' = 0 /\ points' = <<>> /\ writing' = <<>>
  /\ at' = "idle" /\ content' = <<>>

Init ==
  /\ area = 0 /\ points = <<>> /\ writing = <<>>
  /\ at = "idle" /\ content = <<>>
  /\ file = [n \in Present |-> <<>>]
  /\ clicks = 0 /\ faults = 0

-----------------------------------------------------------------------------
(* The constructor compares the configured counts with parameter_names_,   *)
(* which is still empty, and so replaces all but an empty list.            *)
Counts ==
  IF Len(Configured) # 0
  THEN <<2, 3, 2, 3, 4, 4, 4, 4, 6, 6, 6, 6>>
  ELSE Configured

Required(a) == IF a < Len(Counts) THEN Counts[a + 1] ELSE 4

(* generatePolygonStringFromPoints: along the line on one side and back on *)
(* the other.                                                              *)
GeneratePolygon(p) ==
  [i \in 1 .. Len(p) |-> [click |-> p[i], side |-> "right"]]
  \o [i \in 1 .. Len(p) |-> [click |-> Reverse(p)[i], side |-> "left"]]

(* The two parameters of a tunnel take the x and the y of every click.     *)
Value(n) ==
  IF n \in RemovedAreas THEN GeneratePolygon(points)
  ELSE [i \in 1 .. Len(points) |->
          [click |-> points[i], side |-> IF n % 2 = 0 THEN "x" ELSE "y"]]

(* Variant: y goes two names on.                                           *)
ParametersTwoOn(a) == IF a \in RemovedAreas THEN <<a>> ELSE <<a, (a + 2) % 12>>

(* The parameters updateCostmapParameters writes for area a.               *)
Parameters(a) == IF a \in RemovedAreas THEN <<a>> ELSE <<a, a + 1>>

(* pointCallback and handleAutoMode up to finishPolygon.                   *)
Click ==
  /\ at = "idle" /\ clicks < MaxClicks
  /\ clicks' = clicks + 1
  /\ points' = Append(points, clicks + 1)
  /\ IF Len(points) + 1 >= Required(area)
     THEN writing' = Parameters(area) /\ at' = "read"
     ELSE UNCHANGED <<writing, at>>
  /\ UNCHANGED <<area, content, file, faults>>

(* modifyConfigFile, for the next parameter: read and replace.  Nothing is *)
(* written when the file does not hold the parameter.                      *)
Read ==
  /\ at = "read" /\ writing # <<>>
  /\ LET n == Head(writing)
     IN IF n \in DOMAIN file
        THEN /\ content' = [file EXCEPT ![n] = Value(n)]
             /\ at' = "open"
             /\ UNCHANGED writing
        ELSE /\ writing' = Tail(writing)
             /\ UNCHANGED <<content, at>>
  /\ UNCHANGED <<area, points, file, clicks, faults>>

(* Opening the file for writing empties it.                                *)
Open ==
  /\ at = "open"
  /\ file' = <<>>
  /\ at' = "write"
  /\ UNCHANGED <<area, points, writing, content, clicks, faults>>

Write ==
  /\ at = "write"
  /\ file' = content
  /\ content' = <<>>
  /\ writing' = Tail(writing)
  /\ at' = "read"
  /\ UNCHANGED <<area, points, clicks, faults>>

(* The file cannot be opened, for reading or for writing: this parameter   *)
(* is given up.                                                            *)
OpenFails ==
  /\ at \in {"read", "open"} /\ writing # <<>> /\ faults < MaxFaults
  /\ writing' = Tail(writing)
  /\ content' = <<>>
  /\ at' = "read"
  /\ faults' = faults + 1
  /\ UNCHANGED <<area, points, file, clicks>>

(* Variant: the points are kept.                                           *)
FinishKeepingPoints ==
  /\ at = "read" /\ writing = <<>>
  /\ area' = (area + Len(Parameters(area))) % 12
  /\ at' = "idle"
  /\ UNCHANGED <<points, writing, content, file, clicks, faults>>

(* Variant: the index is not moved past the y parameter's.                 *)
FinishOneOn ==
  /\ at = "read" /\ writing = <<>>
  /\ points' = <<>>
  /\ area' = (area + 1) % 12
  /\ at' = "idle"
  /\ UNCHANGED <<writing, content, file, clicks, faults>>

(* All parameters are dealt with, written or not: the rest of              *)
(* updateCostmapParameters, finishPolygon and handleAutoMode.              *)
Finish ==
  /\ at = "read" /\ writing = <<>>
  /\ points' = <<>>
  /\ LET moved == IF area \in RemovedAreas THEN area ELSE area + 2 - 1
     IN area' = (moved + 1) % 12
  /\ at' = "idle"
  /\ UNCHANGED <<writing, content, file, clicks, faults>>

(* The process ends and is started again.                                  *)
Crash ==
  /\ faults < MaxFaults
  /\ faults' = faults + 1
  /\ Started
  /\ UNCHANGED <<file, clicks>>

Next == Click \/ Read \/ Open \/ Write \/ OpenFails \/ Finish \/ Crash

Spec == Init /\ [][Next]_vars

-----------------------------------------------------------------------------
Vertices == [click : 1 .. MaxClicks, side : {"left", "right", "x", "y"}]

TypeOK ==
  /\ area \in Names
  /\ points \in Seq(1 .. MaxClicks) /\ Len(points) <= 6
  /\ writing \in Seq(Names)
  /\ at \in {"idle", "read", "open", "write"}
  /\ DOMAIN content \subseteq Names
  /\ DOMAIN file \subseteq Present
  /\ \A n \in DOMAIN file : file[n] \in Seq(Vertices)
  /\ clicks \in 0 .. MaxClicks /\ faults \in 0 .. MaxFaults

AreaOf(n) == IF n \in RemovedAreas THEN n ELSE 2 * (n \div 2)
ClicksOf(n) == {file[n][i].click : i \in DOMAIN file[n]}

(* A click marks one area only, the one whose turn it was, even when a     *)
(* crash or a failed write comes in between; and what it marks has as many *)
(* clicks as that area takes.                                              *)
ClicksBelongToOneArea ==
  \A n \in DOMAIN file :
    /\ Cardinality(ClicksOf(n)) \in {0, Required(n)}
    /\ \A m \in DOMAIN file :
         AreaOf(m) # AreaOf(n) => ClicksOf(m) \intersect ClicksOf(n) = {}

(* The x and the y of a tunnel are those of the same clicks, unless a      *)
(* crash or a failed write separated them.                                 *)
TunnelHalvesAgree ==
  at = "idle" /\ faults = 0 =>
    \A n \in DOMAIN file : \A m \in DOMAIN file :
      n \notin RemovedAreas /\ AreaOf(m) = AreaOf(n) => ClicksOf(m) = ClicksOf(n)

(* The areas take turns: those before the current one carry newer clicks   *)
(* than those from it on, whatever the file holds of them.                 *)
AreasTakeTurns ==
  at = "idle" /\ faults = 0 =>
    \A n \in DOMAIN file : \A m \in DOMAIN file :
      n < area /\ area <= m =>
        \A k \in ClicksOf(m) : ClicksOf(n) # {} /\ \A j \in ClicksOf(n) : k < j

(* What README.md of the package says: an area is complete after the       *)
(* number of points the configuration gives.                               *)
CountsAreTheConfigured ==
  \A n \in DOMAIN file :
    Len(Configured) = 12 => Cardinality(ClicksOf(n)) \in {0, Configured[n + 1]}

(* What SUMMARY.md of the package says: the configuration is backed up and *)
(* recovered.                                                              *)
ConfigurationRecovered == at = "idle" => DOMAIN file = Present
=============================================================================
