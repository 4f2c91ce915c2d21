------------------------------ MODULE MC_ManifestDb ------------------------------
(* Model checking of ManifestDb: directories of one file with two providers *)
(* or of two files, of templates and events in either order; events of one  *)
(* to three names and some fields.                                          *)
EXTENDS ManifestDb, TLC

Fields(ks) == [k \in ks |-> <<"value of", k>>]

T(id, names) ==
  << <<"template", id>> >> \o [n \in DOMAIN names |-> <<"data", names[n]>>] \o << <<"/template">> >>

Templates ==
  { T("t1", <<"a", "b">>), T("t1", <<"c">>), T("t2", <<"c">>) \o T("t1", <<"a">>),
    << <<"template", "t1">> >>, << <<"data", "x">> >> \o T("t1", <<"b">>) }

EventDefinitions ==
  { << <<"event", 1, "t1">> >>, << <<"event", 1, "t2">> >>,
    << <<"event", 2, "t2">>, <<"event", 1, "t1">> >> }

Sections(guids) ==
  { << <<"provider", g>> >> \o s : g \in guids,
      s \in { t \o e : t \in Templates, e \in EventDefinitions }
              \cup { e \o t : t \in Templates, e \in EventDefinitions } }

Single(file) == [name \in {"1.man"} |-> file]

Input(d, e, fields) == [dir |-> d, event |-> e, given |-> fields]

Loads ==
  { Input(d, <<"{G1}", 1>>, Fields({"Param1"})) : d \in
      { Single(a \o b) : a \in Sections({"g1"}), b \in Sections({"{G1}", "g2"}) }
      \cup { [name \in {"1.man", "2.man"} |-> IF name = "1.man" THEN a ELSE b] :
                a \in Sections({"g1"}), b \in Sections({"{G1}", "g2"})
                                          \cup {<< <<"provider", "g2">>, <<"malformed">> >>} } }

NameLists == UNION { [1 .. m -> {"a", "b", "Param2"}] : m \in 0 .. 3 }

Resolutions ==
  { Input(Single(<< <<"provider", "g1">> >> \o T("t1", names) \o << <<"event", 1, "t1">> >>),
          <<"{G1}", 1>>, Fields(ks)) :
      names \in NameLists, ks \in SUBSET {"Param1", "Param01", "Param2", "Param3", "a", "x"} }

MCManifests == <<Loads, Resolutions>>

MCParams == [Param1 |-> 1, Param01 |-> 1, Param2 |-> 2, Param3 |-> 3]

MCNormal == ("" :> "") @@ ("g1" :> "g1") @@ ("{G1}" :> "g1") @@ ("g2" :> "g2")
=============================================================================
