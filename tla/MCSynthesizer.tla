---------------------------- MODULE MCSynthesizer ----------------------------
(***************************************************************************)
(* An instance of Synthesizer for TLC: up to four files, two of them        *)
(* kustomizations, that may list each other and what is not there.          *)
(***************************************************************************)
EXTENDS Synthesizer

WalkOrder == <<"a.yaml", "kustomization.yaml", "n.txt", "sub/kustomization.yml">>
Names == [path \in {"a.yaml", "kustomization.yaml", "n.txt", "sub/kustomization.yml"} |->
            CASE path = "a.yaml" -> "manifest"
              [] path = "n.txt"  -> "other"
              [] OTHER           -> "kustomization"]

Roots == {<<"other", "ts">>, <<"go", "ts">>, <<"other">>}

Yaml(listed, contents) == [lists |-> listed, docs |-> contents]

Bodies == {<<>>, <<"object">>, <<"object", "null", "object">>, <<"null", "bad">>}
Manifest == {Yaml(Unparsable, body) : body \in Bodies}
Kustomization ==
  {Yaml(Unparsable, <<"bad">>)} \cup
  {Yaml(listed, <<"object">>) :
     listed \in {<<>>, <<"a.yaml">>, <<"a.yaml", "n.txt">>, <<"n.txt", "sub/kustomization.yml", "a.yaml">>}}

Outcomes ==
  {Missing} \cup
  {[path \in {"a.yaml", "kustomization.yaml", "n.txt", "sub/kustomization.yml"} |->
      CASE path = "a.yaml" -> a [] path = "kustomization.yaml" -> k
        [] path = "n.txt"  -> n [] OTHER -> s] :
     a \in Manifest \cup {Missing}, k \in Kustomization \cup {Missing},
     n \in {Missing, Yaml(Unparsable, <<"object">>)}, s \in Kustomization \cup {Missing}}
=============================================================================
