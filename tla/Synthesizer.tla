----------------------------- MODULE Synthesizer -----------------------------
(***************************************************************************)
(* One call of Synthesize: the cdk8s application of a cloned repository is  *)
(* synthesized, the files under dist/ are found, and the resources          *)
(* are read out of them. A file has a name, the paths it lists if it is read *)
(* as a kustomization, and its YAML documents if it is read as a manifest.  *)
(***************************************************************************)
EXTENDS Naturals, Sequences, SequencesExt

CONSTANTS
  Walk,     \* every path there can be, in the lexical order of WalkDir
  Named,    \* [path -> "kustomization", "manifest" (.yaml, .yml) or "other"]
  Listings, \* what the root of a repository may hold: sequences of its files' suffixes
  Dists,    \* what dist/ may hold: functions from paths to Missing or a file
  Missing, Unparsable, None

Paths == Range(Walk)

(* What a decoded document may be.                                          *)
Documents == {"object", "null", "bad"}

Files == [lists : {Unparsable} \cup Seq(Paths), docs : Seq(Documents)]

ASSUME SynthesizerConstants ==
  /\ Walk \in Seq(Paths)
  /\ Named \in [Paths -> {"kustomization", "manifest", "other"}]
  /\ Dists \subseteq {Missing} \cup [Paths -> {Missing} \cup Files]
  /\ None \notin Dists /\ None \notin Paths

VARIABLES
  pc,       \* where the call is
  root,     \* the suffixes of the files in the repository's root, in order
  dist,     \* the files under dist/
  walked,   \* how much of the walk is done
  kustomizeFiles, regularManifests, \* what it has found
  todo,     \* the files still to be read, in order
  docs,     \* the documents still to be decoded of the file that is open
  current,  \* that file
  parsed,   \* the resources: the path and the position of their document
  err

found == <<kustomizeFiles, regularManifests>>
vars == <<pc, root, dist, walked, found, todo, docs, current, parsed, err>>

(* Every list holds paths, and a step that needs a file has one.            *)
TypeOK ==
  /\ pc \in {"type", "npm", "synth", "walk", "kustomize", "read", "decode", "done"}
  /\ root \in Listings /\ dist \in Dists \cup {None} /\ walked \in 0..Len(Walk)
  /\ kustomizeFiles \in Seq(Paths) /\ regularManifests \in Seq(Paths)
  /\ todo \in Seq(Paths) /\ docs \in Seq(Documents)
  /\ current \in Paths \cup {None} /\ (pc = "decode" => current # None)
  /\ (pc = "kustomize" => kustomizeFiles # <<>>)
  /\ parsed \in Seq(Paths \X (Nat \ {0})) /\ err \in BOOLEAN

Init ==
  /\ pc = "type" /\ root \in Listings /\ dist = None /\ walked = 0
  /\ kustomizeFiles = <<>> /\ regularManifests = <<>>
  /\ todo = <<>> /\ docs = <<>> /\ current = None /\ parsed = <<>> /\ err = FALSE

Return(failed) == pc' = "done" /\ err' = failed

-----------------------------------------------------------------------------
(* The language is that of the first file in the root with a known suffix.  *)
cdk8sType(files) ==
  LET known == SelectSeq(files, LAMBDA suffix : suffix \in {"go", "ts", "py"})
  IN IF known = <<>> THEN None ELSE Head(known)

DetermineType ==
  /\ pc = "type"
  /\ pc' = IF cdk8sType(root) = "ts" THEN "npm" ELSE "synth"
  /\ UNCHANGED <<root, dist, walked, found, todo, docs, current, parsed, err>>

(* "npm install"; that it fails is logged and nothing more.                 *)
NpmInstall ==
  /\ pc = "npm" /\ pc' = "synth"
  /\ UNCHANGED <<root, dist, walked, found, todo, docs, current, parsed, err>>

(* "cdk8s synth". What it leaves under dist/ are files it has written or    *)
(* that were committed; what is a directory there, or lies elsewhere, is as *)
(* good as missing.                                                         *)
Synth ==
  /\ pc = "synth"
  /\ \/ Return(TRUE) /\ UNCHANGED dist
     \/ dist' \in Dists /\ pc' = "walk" /\ UNCHANGED err
  /\ UNCHANGED <<root, walked, found, todo, docs, current, parsed>>

(* findManifests: the next file of the walk.                                *)
Visit ==
  LET path == Walk[walked + 1]
      Found(name, list) ==
        IF dist[path] # Missing /\ Named[path] = name THEN Append(list, path) ELSE list
  IN /\ pc = "walk" /\ dist # Missing /\ walked < Len(Walk)
     /\ walked' = walked + 1
     /\ kustomizeFiles' = Found("kustomization", kustomizeFiles)
     /\ regularManifests' = Found("manifest", regularManifests)
     /\ UNCHANGED <<pc, root, dist, todo, docs, current, parsed, err>>

MutantEndWalk ==  \* whatever has been found is taken for kustomizations
  /\ pc = "walk"
  /\ \/ dist = Missing /\ Return(TRUE) /\ UNCHANGED todo
     \/ /\ dist # Missing /\ walked = Len(Walk)
        /\ IF kustomizeFiles \o regularManifests # <<>>
           THEN pc' = "kustomize" /\ UNCHANGED todo
           ELSE pc' = "read" /\ todo' = regularManifests
        /\ UNCHANGED err
  /\ UNCHANGED <<root, dist, walked, found, docs, current, parsed>>

(* Kustomizations, if there are any, decide what is read.                   *)
EndWalk ==
  /\ pc = "walk"
  /\ \/ dist = Missing /\ Return(TRUE) /\ UNCHANGED todo
     \/ /\ dist # Missing /\ walked = Len(Walk)
        /\ IF kustomizeFiles # <<>> THEN pc' = "kustomize" /\ UNCHANGED todo
                                    ELSE pc' = "read" /\ todo' = regularManifests
        /\ UNCHANGED err
  /\ UNCHANGED <<root, dist, walked, found, docs, current, parsed>>

MutantParseKustomization ==  \* the first kustomization is enough
  /\ pc = "kustomize"
  /\ LET lists == dist[Head(kustomizeFiles)].lists IN
     IF lists = Unparsable THEN Return(TRUE) /\ UNCHANGED <<kustomizeFiles, todo>>
     ELSE /\ todo' = todo \o lists /\ kustomizeFiles' = Tail(kustomizeFiles)
          /\ pc' = "read" /\ UNCHANGED err
  /\ UNCHANGED <<root, dist, walked, regularManifests, docs, current, parsed>>

(* parseKustomization of the next one; what it lists is not looked into.    *)
ParseKustomization ==
  /\ pc = "kustomize"
  /\ LET lists == dist[Head(kustomizeFiles)].lists IN
     IF lists = Unparsable THEN Return(TRUE) /\ UNCHANGED <<kustomizeFiles, todo>>
     ELSE /\ todo' = todo \o lists /\ kustomizeFiles' = Tail(kustomizeFiles)
          /\ pc' = IF Len(kustomizeFiles) = 1 THEN "read" ELSE pc
          /\ UNCHANGED err
  /\ UNCHANGED <<root, dist, walked, regularManifests, docs, current, parsed>>

(* parseManifests: the next file; none left, the call returns.              *)
ReadFile ==
  /\ pc = "read"
  /\ IF todo = <<>> THEN Return(FALSE) /\ UNCHANGED <<todo, docs, current>>
     ELSE /\ todo' = Tail(todo)
          /\ IF dist[Head(todo)] = Missing THEN Return(TRUE) /\ UNCHANGED <<docs, current>>
             ELSE /\ docs' = dist[Head(todo)].docs /\ current' = Head(todo)
                  /\ pc' = "decode" /\ UNCHANGED err
  /\ UNCHANGED <<root, dist, walked, found, parsed>>

(* The next document; an empty one is passed over.                          *)
Decode ==
  /\ pc = "decode"
  /\ \/ docs = <<>> /\ pc' = "read" /\ UNCHANGED <<docs, parsed, err>>
     \/ docs # <<>> /\ Head(docs) = "bad" /\ Return(TRUE) /\ UNCHANGED <<docs, parsed>>
     \/ /\ docs # <<>> /\ Head(docs) # "bad"
        /\ docs' = Tail(docs)
        /\ parsed' = IF Head(docs) = "null" THEN parsed
                     ELSE Append(parsed, <<current, Len(dist[current].docs) - Len(docs) + 1>>)
        /\ UNCHANGED <<pc, err>>
  /\ UNCHANGED <<root, dist, walked, found, todo, current>>

Next ==
  \/ DetermineType \/ NpmInstall \/ Synth
  \/ Visit \/ EndWalk \/ ParseKustomization \/ ReadFile \/ Decode

Spec == Init /\ [][Next]_vars

-----------------------------------------------------------------------------
(* What the call is to return, said of dist/ as a whole.                    *)
Present(name) ==
  LET Pick(path) == IF dist[path] # Missing /\ Named[path] = name THEN <<path>> ELSE <<>>
  IN FlattenSeq([i \in DOMAIN Walk |-> Pick(Walk[i])])

Selected ==
  IF Present("kustomization") = <<>> THEN Present("manifest")
  ELSE FlattenSeq([i \in DOMAIN Present("kustomization") |->
                     dist[Present("kustomization")[i]].lists])

Sound ==
  /\ dist \notin {None, Missing}
  /\ \A i \in DOMAIN Present("kustomization") :
       dist[Present("kustomization")[i]].lists # Unparsable
  /\ \A path \in Range(Selected) :
       dist[path] # Missing /\ "bad" \notin Range(dist[path].docs)

Objects(path) ==
  LET contents == dist[path].docs
      Pick(i) == IF contents[i] = "object" THEN <<<<path, i>>>> ELSE <<>>
  IN FlattenSeq([i \in DOMAIN contents |-> Pick(i)])

(* The proxy controller deploys what Synthesize returns without looking at  *)
(* it: the call succeeds exactly when nothing it has to read is missing or  *)
(* broken, and it then returns every resource of every selected file, as    *)
(* often as the file is listed, in the order of the walk, of the lists and  *)
(* of the documents - the fixed order in which Apply stops at a failure.    *)
SynthesisIsSelection ==
  pc = "done" =>
    /\ err <=> ~Sound
    /\ ~err => parsed = FlattenSeq([i \in DOMAIN Selected |-> Objects(Selected[i])])
=============================================================================
