---------------------------- MODULE ResolveTfMC ----------------------------
(***************************************************************************)
(* Inputs for the runs of ResolveTf: three entries and three resources of  *)
(* one type, under a component or at the root; modules "m" and "n" are     *)
(* both mapped to component "c", so one of them finds no entries left; one *)
(* resource is mapped, or two are, to one entry or to none.                *)
(***************************************************************************)
EXTENDS ResolveTf, Functions

MCEntry(place, id) == [parent |-> place[1], type |-> "T", name |-> place[2], id |-> id]

\* The places of the entries: two or one of them under the component.
MCPlaces == {{<<"c", "a">>, <<"c", "b">>, <<Root, "a">>}, {<<"c", "a">>, <<Root, "a">>, <<Root, "b">>}}

\* All file orders; in one file the first entry comes with the ID of a resource.
MCFiles ==
  UNION {{[e \in Entries |-> MCEntry(p[e], Placeholder)] : p \in Bijection(Entries, S)} : S \in MCPlaces}
  \cup {<<MCEntry(<<"c", "a">>, "id1"), MCEntry(<<"c", "b">>, Placeholder), MCEntry(<<Root, "a">>, Placeholder)>>}

MCHomes == <<<<"m", "a">>, <<"m", "b">>, <<"n", "a">>, <<Root, "a">>>>

MCResource(home, id, flag) ==
  [module |-> home[1], type |-> "T", name |-> home[2], id |-> id, flagged |-> flag]

\* Resources 1 and 2 may share an ID, 2 may have none.
MCDigests ==
  {[r \in Resources |->
      MCResource(MCHomes[h[r]], CASE r = 1 -> "id1" [] r = 2 -> id [] r = 3 -> "id3", r \in flagged)] :
     h \in {q \in [Resources -> 1..4] : \A r, s \in Resources : r < s => q[r] < q[s]},
     id \in {"id1", "id2", NoId}, flagged \in {{}, {1}, {2, 3}}}

MCModuleMaps == {[m \in {"m", "n"} |-> "c"]}

MCResourceMaps ==
  {[r \in {3} |-> <<"c", "gone">>], [r \in {1} |-> <<"c", "a">>], [r \in {1, 2} |-> <<"c", "a">>]}
=============================================================================
