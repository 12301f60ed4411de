----------------------------- MODULE StatePatchMC -----------------------------
(***************************************************************************)
(* Two families of inputs.  In the first the names, the types and the       *)
(* mapping files vary and a resource has one field that import left empty.   *)
(* In the second there is one match and the values of two fields vary.       *)
(***************************************************************************)
EXTENDS StatePatch, TLC

MCRes == 1..3
MCDig == {"d1", "d2", "d3"}
MCField == {"f", "g"}

Const(v) == [f \in MCField |-> v]
Two(v, w) == "f" :> v @@ "g" :> w

StateResource(name, suffix, parent, type, ins, outs) ==
  [name |-> name, suffix |-> suffix, parent |-> parent, type |-> type, short |-> type,
   inputs |-> ins, outputs |-> outs, version |-> 2, delta |-> TRUE, refuses |-> {}]
Bare(name, suffix, parent, type) ==
  StateResource(name, suffix, parent, type, Const("nil"), Const("nil"))

DigestResource(module, type, name, key) ==
  [module |-> module, type |-> type, name |-> name, key |-> key, attributes |-> Const("x")]

Input(state, digest, explicit) ==
  [state |-> state, digest |-> digest, module |-> "m" :> "comp", explicit |-> explicit,
   cfn |-> FALSE, byFull |-> [t \in {"bucket", "policy"} |-> {"f"}], byShort |-> [t \in {} |-> {}],
   default |-> Const("nil"), assets |-> {}, secrets |-> {}, artifacts |-> {}, suppression |-> 0]

\* A component with two children, one of which may share its name with another
\* resource of the state, and a resource outside it.
Namings ==
  {Input(<<Bare("comp-a", "a", "comp", "bucket"), second, third>>,
         "d1" :> first @@ "d2" :> other @@ "d3" :> last_, explicit) :
     second \in {Bare("comp-b", "b", "comp", "bucket"), Bare("comp-a", "a", "comp", "policy")},
     third \in {Bare("r", "r", "stack", "bucket"), Bare("comp-c", "c", "comp", "bucket"),
                Bare("r", "r", "stack", "policy")},
     first \in {DigestResource("m", "bucket", "a", "a"), DigestResource("m", "bucket", "this[b]", "b")},
     other \in {DigestResource("m", "bucket", "z", "z"), DigestResource("m", "policy", "b", "b")},
     last_ \in {DigestResource("stack", "bucket", "r", "r"), DigestResource("stack", "policy", "q", "q"),
                DigestResource("m", "bucket", "c", "c")},
     explicit \in {"d1" :> "r", "d3" :> "comp-a", [d \in {} |-> ""]}}

WellNamed == {w \in Namings : \A d \in DOMAIN w.explicit : \E i \in MCRes : w.state[i].name = w.explicit[d]}

\* One resource that the digest knows; f varies freely, g over the cases in
\* which its output is stale, filled, or an asset that may have to be fetched.
Valued(fields, cfn) ==
  [Input(<<[StateResource("r", "r", "stack", "bucket", Two(fields.f.in, fields.g.in), Two(fields.f.out, fields.g.out))
              EXCEPT !.refuses = fields.refuses, !.version = fields.version],
           Bare("s", "s", "stack", "other"), Bare("t", "t", "stack", "another")>>,
         "d1" :> [DigestResource("stack", "bucket", "r", "r")
                    EXCEPT !.attributes = Two(fields.f.dig, fields.g.dig)]
         @@ "d2" :> DigestResource("stack", "gone", "u", "u") @@ "d3" :> DigestResource("stack", "gone", "v", "v"),
         [d \in {} |-> ""])
   EXCEPT !.cfn = cfn, !.byFull = [t \in {"bucket"} |-> {"f", "g"}],
          !.byShort = [t \in {"bucket", "other"} |-> IF t = "other" THEN {"f"} ELSE {}],
          !.default = Two(fields.default, "nil"),
          !.assets = {"g"}, !.secrets = fields.secrets, !.artifacts = fields.artifacts,
          !.suppression = 2]

FCases == [in : {"nil", "off", "secret()"}, out : {"nil", "off", "secret()"},
           dig : {"nil", "x", "off", "list", "[]", "(sensitive)"}]
GCases == {[in |-> "nil", out |-> "nil", dig |-> "path"], [in |-> "asset", out |-> "nil", dig |-> "path"],
           [in |-> "nil", out |-> "off", dig |-> "x"], [in |-> "x", out |-> "off", dig |-> "x"]}

Values ==
  {Valued([f |-> f, g |-> g, default |-> default, refuses |-> refuses, version |-> version,
           secrets |-> secrets, artifacts |-> artifacts], cfn) :
     f \in FCases, g \in GCases, default \in {"nil", "x", "off"}, refuses \in {{}, {"g"}},
     version \in {1, 2}, secrets \in {{}, {<<"d1", "f">>}}, artifacts \in {{}, {<<"d1", "g">>}},
     cfn \in {FALSE}}
  \cup
  {Valued([f |-> f, g |-> g, default |-> default, refuses |-> {"f"}, version |-> 0,
           secrets |-> {}, artifacts |-> {}], TRUE) :
     f \in FCases, g \in GCases, default \in {"nil", "x"}}
  \cup
  {[Valued([f |-> [in |-> "nil", out |-> "nil", dig |-> "x"], g |-> g, default |-> "x", refuses |-> {},
            version |-> 0, secrets |-> {}, artifacts |-> artifacts], TRUE)
      EXCEPT !.state[3] = Bare("other-r", "r", "stack", "other")] :
     g \in GCases, artifacts \in {{}, {<<"d1", "g">>}}}

MCInputs == WellNamed \cup Values
=============================================================================
