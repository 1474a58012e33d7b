------------------------- MODULE ManifestUpdateProofs -------------------------
(***************************************************************************)
(* Proofs about ManifestUpdate, for any products and any number of builds. *)
(* TypeOK and ChecksumsAreOfOneBuild together are inductive.               *)
(***************************************************************************)
EXTENDS ManifestUpdate, TLAPS

Inv == TypeOK /\ ChecksumsAreOfOneBuild

\* A run that ends without errors has got every checksum of its build from the
\* base URL of the variables it loaded.
LEMMA UpdatedFile ==
  ASSUME NEW file \in Variables, NEW v \in 0 .. MaxVersion,
         NEW state \in Urls \cup {Unspecified}, ~Errors(file, v)
  PROVE  /\ Updated(file, v, state) \in Variables
         /\ Updated(file, v, state).version = v
         /\ Updated(file, v, state).baseUrl = IF state = Unspecified THEN file.baseUrl ELSE state
         /\ \A p \in Products :
              /\ Updated(file, v, state).sha[p] = Artifact(file.baseUrl, p, v)
              /\ Updated(file, v, state).sha[p] \in published
  <1> DEFINE url == IF state = Unspecified THEN file.baseUrl ELSE state
             sha == [p \in Products |-> Artifact(file.baseUrl, p, v)]
             result == [baseUrl |-> url, version |-> v, sha |-> sha]
  <1>1. \A p \in Products : Artifact(file.baseUrl, p, v) \in published
    BY DEF Errors
  <1>2. url \in Urls
    BY DEF Variables, Urls, Unspecified
  <1>3. sha \in [Products -> Artifacts]
    BY DEF Artifact, Artifacts, Variables
  <1>4. result \in Variables
    BY <1>2, <1>3 DEF Variables
  <1>5. Updated(file, v, state) = result
    <2> DEFINE written == VersionUpdater(BaseUrlUpdater(file, state), v)
               found == [p \in Products |->
                          IF Artifact(file.baseUrl, p, v) \in published
                          THEN Artifact(file.baseUrl, p, v) ELSE written.sha[p]]
    <2>1. written = [baseUrl |-> url, version |-> v, sha |-> file.sha]
      <3>1. BaseUrlUpdater(file, state)
              = [baseUrl |-> url, version |-> file.version, sha |-> file.sha]
        BY DEF BaseUrlUpdater, Variables
      <3> HIDE DEF url
      <3> QED BY <3>1 DEF VersionUpdater
    <2>2. found = sha
      BY <1>1
    <2>3. Updated(file, v, state) = [written EXCEPT !.sha = found]
      BY DEF Updated, ShaUpdater
    <2> HIDE DEF written, found, url, sha
    <2> QED BY <2>1, <2>2, <2>3 DEF result
  <1> QED BY <1>1, <1>4, <1>5

LEMMA InitInv == Init => Inv
  <1> SUFFICES ASSUME Init PROVE Inv
    OBVIOUS
  <1>0. PICK url \in Urls :
          /\ published = [url : {"preview", url}, product : Products, version : {0}]
          /\ target = [baseUrl |-> url, version |-> 0,
                       sha |-> [p \in Products |-> Artifact(url, p, 0)]]
          /\ pr = {}
    BY DEF Init
  <1>1. 0 \in 0 .. MaxVersion
    BY ManifestAssumption
  <1>2. published \subseteq Artifacts
    BY <1>0, <1>1 DEF Artifacts, Urls
  <1>3. \A p \in Products : Artifact(url, p, 0) \in published /\ Artifact(url, p, 0) \in Artifacts
    BY <1>0, <1>1 DEF Artifact, Artifacts
  <1>4. target \in Variables
    BY <1>0, <1>1, <1>3 DEF Variables
  <1>5. \A p \in Products : target.sha[p].product = p /\ target.sha[p].version = 0 /\ target.version = 0
    BY <1>0 DEF Artifact
  <1>6. pr \subseteq Variables /\ {target} \cup pr = {target}
    BY <1>0
  <1>7. \A p \in Products : target.sha[p] \in published
    BY <1>0, <1>3
  <1> QED BY <1>2, <1>4, <1>5, <1>6, <1>7 DEF Inv, TypeOK, ChecksumsAreOfOneBuild

LEMMA NextInv == Inv /\ [Next]_vars => Inv'
  <1> SUFFICES ASSUME Inv, [Next]_vars PROVE Inv'
    OBVIOUS
  <1> USE DEF Inv, TypeOK, ChecksumsAreOfOneBuild
  <1>1. ASSUME NEW v \in 0 .. MaxVersion, NEW state \in Urls \cup {Unspecified},
               Execute(v, state)
        PROVE  Inv'
    <2> DEFINE file == Updated(target, v, state)
    <2>1. ~Errors(target, v) /\ pr' = {file} /\ UNCHANGED <<published, target>>
      BY <1>1 DEF Execute
    <2>2. /\ file \in Variables
          /\ file.version = v
          /\ \A p \in Products : /\ file.sha[p] = Artifact(target.baseUrl, p, v)
                                 /\ file.sha[p] \in published
      BY <2>1, UpdatedFile
    <2> HIDE DEF file
    <2>3. ASSUME NEW p \in Products
          PROVE  file.sha[p].product = p /\ file.sha[p].version = file.version
      <3>1. file.sha[p] = [url |-> target.baseUrl, product |-> p, version |-> v]
        BY <2>2 DEF Artifact
      <3> QED BY <3>1, <2>2
    <2> QED BY <2>1, <2>2, <2>3
  <1>2. ASSUME NEW url \in Urls, NEW p \in Products, NEW v \in 0 .. MaxVersion,
               Publish(url, p, v)
        PROVE  Inv'
    <2>1. Artifact(url, p, v) \in Artifacts
      BY DEF Artifact, Artifacts
    <2>2. /\ published' = published \cup {Artifact(url, p, v)}
          /\ UNCHANGED <<target, pr>>
      BY <1>2 DEF Publish
    <2> QED BY <2>1, <2>2
  <1>3. CASE Merge
    BY <1>3 DEF Merge
  <1>4. CASE UNCHANGED vars
    BY <1>4 DEF vars
  <1> QED BY <1>1, <1>2, <1>3, <1>4 DEF Next

THEOREM Invariance == Spec => []Inv
  <1> QED BY InitInv, NextInv, PTL DEF Spec

\* The checksums on both branches are of published artifacts of their products.
THEOREM ManifestTypeCorrect == Spec => []TypeOK
  <1>1. Inv => TypeOK
    BY DEF Inv
  <1> QED BY <1>1, Invariance, PTL

\* No branch mixes builds, whichever of the checksums of a run cannot be
\* retrieved (SpecificCommand.ExecuteAsync).
THEOREM OneBuild == Spec => []ChecksumsAreOfOneBuild
  <1>1. Inv => ChecksumsAreOfOneBuild
    BY DEF Inv
  <1> QED BY <1>1, Invariance, PTL

\* A run that does not switch the base URL gets every checksum right, whatever
\* the target branch has.
THEOREM UnswitchedVerifies == Spec => UnswitchedRunVerifies
  <1> DEFINE Step == \A file \in pr' \ pr : file.baseUrl = target.baseUrl => Verifies(file)
  <1>1. ASSUME Inv, [Next]_vars PROVE [Step]_vars
    <2> SUFFICES ASSUME NEW new \in pr' \ pr, new.baseUrl = target.baseUrl
                 PROVE  Verifies(new)
      OBVIOUS
    <2>1. PICK v \in 0 .. MaxVersion, state \in Urls \cup {Unspecified} : Execute(v, state)
      BY <1>1 DEF Next, Publish, Merge, vars
    <2>2. new = Updated(target, v, state) /\ ~Errors(target, v)
      BY <2>1 DEF Execute
    <2>3. target \in Variables
      BY <1>1 DEF Inv, TypeOK
    <2> QED BY <2>2, <2>3, UpdatedFile DEF Verifies
  <1> QED BY <1>1, Invariance, PTL DEF Spec, UnswitchedRunVerifies
==============================================================================
