---------------------------- MODULE MCArtifacts ----------------------------
(***************************************************************************)
(* An instance of Artifacts: three core kinds in two namespaces, one       *)
(* extension kind inside and one outside them, two backends that declare   *)
(* different conversions.                                                  *)
(***************************************************************************)
EXTENDS Artifacts

MCDefaultFormat == [kF |-> "f1", kG |-> "f2", kM |-> "m1"]
MCFormatType == [f1 |-> "TF", f2 |-> "TF", m1 |-> "TM"]
MCSpace == [kF |-> "F", kG |-> "F", kM |-> "M", xF |-> "F", xU |-> "U"]
MCRoleKinds == [features |-> {"kF", "kG"}, matches |-> {"kM"}]
MCRoleSpaces == [features |-> {"F"}, matches |-> {"M"}]

Edge(f, t, l) == [from |-> f, to |-> t, lossless |-> l]
Contract(in, inf, out, outf, conv) ==
  [accepts |-> in, accepts_formats |-> inf, emits |-> out, emits_formats |-> outf,
   conversions |-> conv]

\* The default backend keeps features in a format of its own, and can take them
\* to f2 in two lossless or in two partly lossy steps. The other one converts
\* differently.
MCContracts ==
  [pA |-> <<Contract({}, {}, {"kF"}, {"e1"}, <<Edge("e1", "f1", TRUE), Edge("f1", "f2", FALSE)>>),
            Contract({"kF", "xF"}, {"e1"}, {"kG"}, {"f2"},
                     <<Edge("e1", "e2", TRUE), Edge("e2", "f2", TRUE)>>)>>,
   pB |-> <<Contract({"kF"}, {"f1"}, {"kM"}, {"m1"}, <<Edge("f1", "m1", TRUE), Edge("e1", "f1", FALSE)>>)>>]

D(k, f, m, t) == [name |-> "a", kind |-> k, format |-> f, meta |-> m, type |-> t,
                  source |-> None, wellFormed |-> TRUE]

MCImports == {D("kF", None, "f1", None), D("kM", "e2", None, "TF"), D("xU", "e2", None, None)}
MCOutputs == {<<D("kF", None, None, None), D("kF", "f1", None, None),
                [D("kF", None, None, None) EXCEPT !.name = "b"]>>, 
              <<D("xF", "f1", None, "TF")>>,
              <<D("kG", None, None, None), D("kG", "m1", None, None)>>,
              <<D("kG", None, None, None), [D("kF", None, None, None) EXCEPT !.wellFormed = FALSE]>>}

\* Answers that are empty, that leave everything out or say all of it, that say something
\* else: another format, another kind, a type that contradicts, a source of their own, a
\* descriptor that is none.
B == D(None, None, None, None)
MCAnswers ==
  {<<>>, <<B>>, <<D("kG", "f2", None, "TF"), [B EXCEPT !.name = "b"]>>, <<D(None, "e2", None, None)>>,
   <<[D("kM", None, "f1", None) EXCEPT !.source = <<1, 1>>]>>,
   <<B, [D(None, None, None, "TM") EXCEPT !.name = "b"]>>, <<[B EXCEPT !.wellFormed = FALSE]>>}

Request(ts, l, p, k) == [targets |-> ts, lossless |-> l, provider |-> p, kind |-> k]
MCRequests ==
  {Request({"f2"}, TRUE, None, None), Request({"f1", "e2"}, FALSE, None, None),
   Request({"m1"}, FALSE, "pB", None), Request({"f2"}, FALSE, "pA", "kM")}

ASSUME PlansAssumption == PlansArePaths

----------------------------------------------------------------------------
(* Reference definitions *)

\* A conversion path: its steps are offered, start at the source, follow one
\* another and end in an accepted format.
IsPath(path, steps, source, targets, lossless) ==
  /\ path # <<>> /\ ToSet(path) \subseteq ToSet(steps)
  /\ path[1].from = source /\ path[Len(path)].to \in targets
  /\ \A i \in 1 .. Len(path) - 1 : path[i].to = path[i + 1].from
  /\ lossless => \A i \in DOMAIN path : path[i].lossless

\* The formats n steps lead to.
Within(n, steps, source, lossless) ==
  LET reach[i \in 0 .. n] ==
        IF i = 0 THEN {source}
        ELSE reach[i - 1] \cup {e.to : e \in {d \in ToSet(steps) :
               d.from \in reach[i - 1] /\ (lossless => d.lossless)}}
  IN  reach[n]

\* The planner against the reference, over every subset of these conversions: a plan is a
\* path, no shorter one exists, and there is a plan whenever there is a path.
MCEdges == {Edge("e1", "f1", TRUE), Edge("f1", "f2", FALSE), Edge("e1", "e2", TRUE),
            Edge("e2", "f2", TRUE), Edge("f2", "e1", TRUE), Edge("f1", "m1", TRUE)}

ASSUME PlannerAssumption ==
  \A es \in SUBSET MCEdges, from \in Formats, to \in SUBSET Formats, lossless \in BOOLEAN :
    LET steps == SetToSeq(es)
        path == find_conversion_path(steps, from, to, lossless)
        reach(n) == to \cap Within(n, steps, from, lossless) # {}
    IN  from \notin to =>
          IF path = <<>> THEN ~reach(Cardinality(Formats))
          ELSE IsPath(path, steps, from, to, lossless) /\ ~reach(Len(path) - 1)
=============================================================================
