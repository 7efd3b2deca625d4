------------------------- MODULE AgreementSync_proofs -------------------------
(***************************************************************************)
(* What holds of agreements, deployments and their synchronisation for any *)
(* customer, whatever calls fail: types, that a copy is terminated only    *)
(* when it is gone, and that a deployment recorded as created is published *)
(* in the agreement the record names.                                      *)
(***************************************************************************)
EXTENDS AgreementSync, TLAPS

-----------------------------------------------------------------------------
(* The inductive invariant.                                                 *)

Snapshots == UNION {[some -> SUBSET Subscriptions] : some \in SUBSET Nat}

SyncRecord ==
    [step : SyncSteps, agreement : Nat, at : Nat, processing : BOOLEAN, seen : Snapshots,
     was : Commitments, commitment : Commitments,
     listed : [Subscriptions -> AdobeSubscription], todo : SUBSET Subscriptions,
     deployments : SUBSET Nat]

\* A sync works on agreements that exist, with a list of what each of them held.
SyncShape ==
    /\ sync \in SyncRecord
    /\ sync.agreement \in Agreements /\ sync.at \in Agreements
    /\ sync.deployments \subseteq DOMAIN sync.seen
    /\ sync.deployments \subseteq Agreements
    /\ sync.step \in {"customer", "subscriptions", "add", "match", "lose"} =>
          sync.at \in DOMAIN sync.seen

\* What a list says is gone is gone for good.
ListedGone ==
    \A s \in Subscriptions :
        sync.listed[s].status = "INACTIVE" => adobe[s].status = "INACTIVE"

LostForGood ==
    sync.step \in {"lose", "lost", "lose deployment"} => customer.lost

\* The job works on a pending record, and on the agreement the record names.
JobRecorded ==
    /\ \A d \in job.on : records[d].status = "pending" /\ records[d].licensee
    /\ job.step \in {"resolve", "list", "subscribe"} =>
          \A d \in job.on : records[d].agreement = job.agreement
    /\ job.on # {} /\ job.step \in {"save", "list", "subscribe"} =>
          job.agreement \in Agreements
    /\ \A d \in Deployments : records[d].agreement \in {0} \cup Agreements
    /\ job.agreement \in {0} \cup Agreements
    /\ \A d, e \in job.on : d = e

\* What it has listed is still to do, or in the agreement.
JobPublishes ==
    job.step = "subscribe" =>
        \A s \in Subscriptions :
            DeploymentOf[s] \in job.on /\ job.listed[s].status = "ACTIVE" =>
                s \in job.todo \cup Published(job.agreement)

CustomerInv == CustomerTypeOK /\ TerminatedIsGone
JobInv == DeploymentTypeOK /\ JobRecorded /\ JobPublishes
SyncInv == SyncShape /\ ListedGone /\ LostForGood
Inv == CustomerInv /\ JobInv /\ SyncInv

\* What a step may do with the customer: nothing published or gone comes back.
Grows ==
    /\ CustomerInv'
    /\ Agreements \subseteq Agreements'
    /\ \A i \in Agreements : Published(i) \subseteq Published(i)'
    /\ \A s \in Subscriptions : adobe[s].status = "INACTIVE" => adobe'[s].status = "INACTIVE"
    /\ customer.lost => customer'.lost

LEMMA JobKept ==
    ASSUME Inv, Grows, UNCHANGED deploymentVars
    PROVE  JobInv'
  BY DEF Inv, Grows, JobInv, DeploymentTypeOK, JobRecorded, JobPublishes, deploymentVars,
     Published

LEMMA SyncKept ==
    ASSUME Inv, Grows, UNCHANGED sync
    PROVE  SyncInv'
  BY DEF Inv, Grows, SyncInv, SyncShape, ListedGone, LostForGood, SyncRecord

-----------------------------------------------------------------------------
(* What the writes of agreements and subscriptions do.                      *)

ChangesOn == changes' = changes \/ Change

LEMMA ChangesCounted ==
    ASSUME CustomerTypeOK, ChangesOn
    PROVE  changes' \in 0 .. MaxChanges
  BY CustomerAssumption DEF ChangesOn, Change, CustomerTypeOK

LEMMA AgreementsAre ==
    ASSUME CustomerTypeOK
    PROVE  /\ Agreements \subseteq Nat
           /\ \A i \in Agreements : agreements[i] \in Agreement
           /\ \A i \in Agreements : Kept(i) \subseteq Subscriptions
           /\ \A i \in Agreements : Published(i) \subseteq Subscriptions
  BY DEF CustomerTypeOK, Agreements, Kept, Published

\* One agreement is replaced.
LEMMA AgreementSet ==
    ASSUME CustomerTypeOK, NEW i \in Agreements, NEW agreement \in Agreement,
           agreements' = [agreements EXCEPT ![i] = agreement]
    PROVE  /\ agreements' \in Seq(Agreement)
           /\ Agreements' = Agreements
           /\ agreements'[i] = agreement
           /\ \A j \in Agreements \ {i} : agreements'[j] = agreements[j]
  BY DEF CustomerTypeOK, Agreements

With(i, s, copy) ==
    [agreements[i] EXCEPT !.subscriptions = [agreements[i].subscriptions EXCEPT ![s] = copy]]

LEMMA WithIs ==
    ASSUME CustomerTypeOK, NEW i \in Agreements, NEW s \in Subscriptions, NEW copy \in Copy
    PROVE  /\ With(i, s, copy) \in Agreement
           /\ With(i, s, copy).status = agreements[i].status
           /\ With(i, s, copy).subscriptions[s] = copy
           /\ \A t \in Subscriptions \ {s} :
                 With(i, s, copy).subscriptions[t] = agreements[i].subscriptions[t]
  BY AgreementsAre DEF With, Agreement

\* The copies of one agreement change: what is published stays, and what is
\* terminated is gone.
LEMMA AgreementGrows ==
    ASSUME CustomerInv, NEW i \in Agreements, NEW agreement \in Agreement,
           agreements' = [agreements EXCEPT ![i] = agreement],
           \A s \in Subscriptions :
              /\ agreement.subscriptions[s].status = "absent" =>
                    agreements[i].subscriptions[s].status = "absent"
              /\ agreement.subscriptions[s].status = "Terminated" =>
                    \/ agreements[i].subscriptions[s].status = "Terminated"
                    \/ customer.lost
                    \/ adobe[s].status = "INACTIVE",
           UNCHANGED <<adobe, customer>>, ChangesOn
    PROVE  Grows
  <1>1. /\ agreements' \in Seq(Agreement) /\ Agreements' = Agreements
        /\ agreements'[i] = agreement
        /\ \A j \in Agreements \ {i} : agreements'[j] = agreements[j]
    BY AgreementSet DEF CustomerInv
  <1>2. CustomerTypeOK'
    BY <1>1, ChangesCounted DEF CustomerInv, CustomerTypeOK
  <1>3. TerminatedIsGone'
    BY <1>1 DEF CustomerInv, TerminatedIsGone
  <1>4. \A j \in Agreements : Published(j) \subseteq Published(j)'
    BY <1>1 DEF Published
  <1>5. QED
    BY <1>1, <1>2, <1>3, <1>4 DEF Grows, CustomerInv

LEMMA CopyGrows ==
    ASSUME CustomerInv, NEW i \in Agreements, NEW s \in Subscriptions, NEW copy \in Copy,
           agreements' = [agreements EXCEPT ![i] = With(i, s, copy)],
           copy.status = "absent" => agreements[i].subscriptions[s].status = "absent",
           copy.status = "Terminated" =>
              \/ agreements[i].subscriptions[s].status = "Terminated"
              \/ customer.lost
              \/ adobe[s].status = "INACTIVE",
           UNCHANGED <<adobe, customer>>, ChangesOn
    PROVE  Grows
  <1>1. /\ With(i, s, copy) \in Agreement
        /\ With(i, s, copy).subscriptions[s] = copy
        /\ \A t \in Subscriptions \ {s} :
              With(i, s, copy).subscriptions[t] = agreements[i].subscriptions[t]
    BY WithIs DEF CustomerInv
  <1> DEFINE agreement == With(i, s, copy)
  <1>2. /\ agreement \in Agreement
        /\ agreements' = [agreements EXCEPT ![i] = agreement]
        /\ \A t \in Subscriptions :
              agreement.subscriptions[t] =
                 IF t = s THEN copy ELSE agreements[i].subscriptions[t]
    BY <1>1
  <1> HIDE DEF agreement
  <1>3. \A t \in Subscriptions :
           /\ agreement.subscriptions[t].status = "absent" =>
                 agreements[i].subscriptions[t].status = "absent"
           /\ agreement.subscriptions[t].status = "Terminated" =>
                 \/ agreements[i].subscriptions[t].status = "Terminated"
                 \/ customer.lost
                 \/ adobe[t].status = "INACTIVE"
    BY <1>2
  <1>4. QED
    BY <1>2, <1>3, AgreementGrows

LEMMA PublishGrows ==
    ASSUME CustomerInv, NEW i \in Agreements, NEW s \in Subscriptions,
           NEW listed \in AdobeSubscription, Publish(i, s, listed),
           UNCHANGED <<adobe, customer>>, ChangesOn
    PROVE  Grows /\ s \in Published(i)'
  <1> DEFINE copy == [status |-> "Active", renewing |-> listed.renewing,
                      quantity |-> listed.quantity]
  <1>1. copy \in Copy /\ copy.status = "Active"
    BY DEF Copy, AdobeSubscription
  <1>2. agreements' = [agreements EXCEPT ![i] = With(i, s, copy)]
    BY Zenon DEF Publish, With
  <1> HIDE DEF copy
  <1>3. Grows
    BY <1>1, <1>2, CopyGrows
  <1>4. agreements'[i].subscriptions[s] = copy
    <2>1. With(i, s, copy) \in Agreement /\ With(i, s, copy).subscriptions[s] = copy
      BY <1>1, WithIs DEF CustomerInv
    <2>2. agreements'[i] = With(i, s, copy)
      BY <1>2, <2>1, AgreementSet, Zenon DEF CustomerInv
    <2>3. QED
      BY <2>1, <2>2
  <1>5. QED
    BY <1>1, <1>3, <1>4 DEF Published

LEMMA UpdateCopyGrows ==
    ASSUME CustomerInv, NEW i \in Agreements, NEW s \in Subscriptions,
           NEW listed \in AdobeSubscription, UpdateCopy(i, s, listed),
           UNCHANGED <<adobe, customer>>, ChangesOn
    PROVE  Grows
  <1> DEFINE was == agreements[i].subscriptions[s]
             half == [was EXCEPT !.renewing = listed.renewing]
             copy == [half EXCEPT !.quantity = listed.quantity]
  <1>1. was \in Copy
    BY AgreementsAre DEF CustomerInv, Agreement
  <1>2. half \in Copy /\ half.status = was.status
    BY <1>1 DEF Copy, AdobeSubscription
  <1>3. copy \in Copy /\ copy.status = was.status
    <2> HIDE DEF half, was
    <2> QED BY <1>2 DEF Copy, AdobeSubscription
  <1>4. agreements' = [agreements EXCEPT ![i] = With(i, s, copy)]
    <2> DEFINE first == [agreements EXCEPT ![i] = With(i, s, half)]
    <2>1. agreements' = [first EXCEPT ![i].subscriptions[s].quantity = listed.quantity]
      BY Zenon DEF UpdateCopy, With
    <2>2. /\ first[i] = With(i, s, half) /\ DOMAIN first = DOMAIN agreements
          /\ \A j \in Agreements \ {i} : first[j] = agreements[j]
      BY DEF Agreements
    <2>3. agreements' = [first EXCEPT ![i] =
             [first[i] EXCEPT !.subscriptions = [first[i].subscriptions EXCEPT ![s] =
                 [first[i].subscriptions[s] EXCEPT !.quantity = listed.quantity]]]]
      BY <2>1, Zenon
    <2>4. With(i, s, half) \in Agreement /\ With(i, s, half).subscriptions[s] = half
      BY <1>2, WithIs DEF CustomerInv
    <2> HIDE DEF half, first
    <2>5. agreements' = [first EXCEPT ![i] =
             [With(i, s, half) EXCEPT !.subscriptions =
                [With(i, s, half).subscriptions EXCEPT ![s] = copy]]]
      BY <2>2, <2>3, <2>4, Zenon
    <2>6. [With(i, s, half) EXCEPT !.subscriptions =
              [With(i, s, half).subscriptions EXCEPT ![s] = copy]] = With(i, s, copy)
      <3> HIDE DEF copy, was
      <3>1. agreements[i] \in Agreement
        BY AgreementsAre DEF CustomerInv
      <3>2. [With(i, s, half).subscriptions EXCEPT ![s] = copy] =
               [agreements[i].subscriptions EXCEPT ![s] = copy]
        <4>1. With(i, s, half).subscriptions = [agreements[i].subscriptions EXCEPT ![s] = half]
          BY <3>1 DEF With, Agreement
        <4>2. [[agreements[i].subscriptions EXCEPT ![s] = half] EXCEPT ![s] = copy] =
                 [agreements[i].subscriptions EXCEPT ![s] = copy]
          BY <3>1 DEF Agreement
        <4>3. QED
          BY <4>1, <4>2
      <3>3. QED
        BY <3>1, <3>2 DEF With, Agreement
    <2>7. QED
      BY <2>5, <2>6 DEF first
  <1> HIDE DEF copy
  <1>5. QED
    BY <1>3, <1>4, CopyGrows

LEMMA StatusGrows ==
    ASSUME CustomerInv, NEW i \in Agreements, NEW s \in Subscriptions,
           NEW status \in {"Active", "Updating"},
           agreements[i].subscriptions[s].status # "absent",
           agreements' = [agreements EXCEPT ![i].subscriptions[s].status = status],
           UNCHANGED <<adobe, customer>>, ChangesOn
    PROVE  Grows
  <1> DEFINE copy == [agreements[i].subscriptions[s] EXCEPT !.status = status]
  <1>1. copy \in Copy /\ copy.status # "absent" /\ copy.status # "Terminated"
    BY AgreementsAre DEF CustomerInv, Agreement, Copy
  <1>2. agreements' = [agreements EXCEPT ![i] = With(i, s, copy)]
    BY Zenon DEF With
  <1> HIDE DEF copy
  <1>3. QED
    BY <1>1, <1>2, CopyGrows

LEMMA TerminateGrows ==
    ASSUME CustomerInv, NEW i \in Agreements, NEW s \in Subscriptions, TerminateCopy(i, s),
           customer.lost \/ adobe[s].status = "INACTIVE",
           UNCHANGED <<adobe, customer>>, ChangesOn
    PROVE  Grows
  <1> DEFINE copy == [agreements[i].subscriptions[s] EXCEPT !.status = "Terminated"]
             first == [agreements EXCEPT ![i] = With(i, s, copy)]
             status == IF Kept(i) \ {s} = {} THEN "Terminated" ELSE first[i].status
             agreement == [With(i, s, copy) EXCEPT !.status = status]
  <1>1. copy \in Copy /\ copy.status = "Terminated"
    BY AgreementsAre DEF CustomerInv, Agreement, Copy
  <1>2. agreements' = [first EXCEPT ![i] = [first[i] EXCEPT !.status = status]]
    BY Zenon DEF TerminateCopy, With
  <1> HIDE DEF copy
  <1>3. first[i] = With(i, s, copy)
    BY DEF Agreements
  <1>4. agreements' = [agreements EXCEPT ![i] = agreement]
    <2> HIDE DEF status
    <2>1. agreements' = [first EXCEPT ![i] = agreement]
      BY <1>2, <1>3, Zenon
    <2> HIDE DEF agreement
    <2>2. QED
      BY <2>1
  <1>5. /\ With(i, s, copy) \in Agreement
        /\ With(i, s, copy).subscriptions[s] = copy
        /\ \A t \in Subscriptions \ {s} :
              With(i, s, copy).subscriptions[t] = agreements[i].subscriptions[t]
    BY <1>1, WithIs DEF CustomerInv
  <1>6. status \in {"Active", "Terminated"}
    BY <1>3, <1>5 DEF Agreement
  <1> HIDE DEF status, first
  <1>7. agreement \in Agreement /\ agreement.subscriptions = With(i, s, copy).subscriptions
    <2> DEFINE w == With(i, s, copy)
    <2>1. w \in Agreement
      BY <1>5
    <2> HIDE DEF w
    <2>2. [w EXCEPT !.status = status] \in Agreement
          /\ [w EXCEPT !.status = status].subscriptions = w.subscriptions
      BY <1>6, <2>1 DEF Agreement
    <2>3. QED
      BY <2>2 DEF w
  <1> HIDE DEF agreement
  <1>8. \A t \in Subscriptions :
           agreement.subscriptions[t] = IF t = s THEN copy ELSE agreements[i].subscriptions[t]
    BY <1>5, <1>7
  <1>9. \A t \in Subscriptions :
           /\ agreement.subscriptions[t].status = "absent" =>
                 agreements[i].subscriptions[t].status = "absent"
           /\ agreement.subscriptions[t].status = "Terminated" =>
                 \/ agreements[i].subscriptions[t].status = "Terminated"
                 \/ customer.lost
                 \/ adobe[t].status = "INACTIVE"
    BY <1>1, <1>8
  <1>10. QED
    BY <1>4, <1>7, <1>9, AgreementGrows

LEMMA CommitmentGrows ==
    ASSUME CustomerInv, NEW i \in Agreements, NEW commitment \in Commitments,
           SetCommitment(i, commitment), UNCHANGED <<adobe, customer, changes>>
    PROVE  Grows
  <1> DEFINE agreement == [agreements[i] EXCEPT !.commitment = commitment]
  <1>1. agreement \in Agreement /\ agreement.subscriptions = agreements[i].subscriptions
    BY AgreementsAre DEF CustomerInv, Agreement
  <1>2. agreements' = [agreements EXCEPT ![i] = agreement]
    BY Zenon DEF SetCommitment
  <1> HIDE DEF agreement
  <1>3. \A s \in Subscriptions :
           agreement.subscriptions[s] = agreements[i].subscriptions[s]
    BY <1>1
  <1>4. ChangesOn /\ UNCHANGED <<adobe, customer>>
    BY DEF ChangesOn
  <1>5. \A s \in Subscriptions :
           /\ agreement.subscriptions[s].status = "absent" =>
                 agreements[i].subscriptions[s].status = "absent"
           /\ agreement.subscriptions[s].status = "Terminated" =>
                 \/ agreements[i].subscriptions[s].status = "Terminated"
                 \/ customer.lost
                 \/ adobe[s].status = "INACTIVE"
    BY <1>3
  <1>6. QED
    BY <1>1, <1>2, <1>4, <1>5, AgreementGrows

LEMMA CreateAgreementGrows ==
    ASSUME CustomerInv, NEW d \in Deployments, agreements' = Append(agreements, NewAgreement(d)),
           UNCHANGED <<adobe, customer, changes>>
    PROVE  Grows /\ Agreements' = 1 .. Len(agreements) + 1 /\ Agreements = 1 .. Len(agreements)
  <1>1. NothingListed \in [Subscriptions -> Copy]
        /\ \A s \in Subscriptions : NothingListed[s].status = "absent"
    <2>1. Blank \in Copy /\ Blank.status = "absent"
      BY CustomerAssumption DEF Blank, Copy
    <2>2. QED
      BY <2>1 DEF NothingListed
  <1>2. NewAgreement(d) \in Agreement
        /\ NewAgreement(d).subscriptions = NothingListed
    BY <1>1, CustomerAssumption DEF NewAgreement, Agreement
  <1>3. /\ agreements \in Seq(Agreement) /\ agreements' \in Seq(Agreement)
        /\ Len(agreements') = Len(agreements) + 1
        /\ \A i \in 1 .. Len(agreements) : agreements'[i] = agreements[i]
        /\ agreements'[Len(agreements) + 1] = NewAgreement(d)
    BY <1>2 DEF CustomerInv, CustomerTypeOK
  <1>4. Agreements = 1 .. Len(agreements) /\ Agreements' = 1 .. Len(agreements) + 1
    BY <1>3 DEF Agreements
  <1>5. CustomerTypeOK'
    BY <1>3 DEF CustomerInv, CustomerTypeOK
  <1>6. TerminatedIsGone'
    BY <1>1, <1>2, <1>3, <1>4 DEF CustomerInv, TerminatedIsGone
  <1>7. \A i \in Agreements : Published(i) \subseteq Published(i)'
    BY <1>3, <1>4 DEF Published
  <1>8. QED
    BY <1>4, <1>5, <1>6, <1>7 DEF Grows, CustomerInv

\* What Adobe changes: what is INACTIVE stays so, and nobody finds a customer
\* that is lost.
LEMMA AdobeGrows ==
    ASSUME CustomerInv, adobe' \in [Subscriptions -> AdobeSubscription],
           \A s \in Subscriptions : adobe[s].status = "INACTIVE" => adobe'[s].status = "INACTIVE",
           customer' \in [lost : BOOLEAN, commitment : Commitments],
           customer.lost => customer'.lost,
           UNCHANGED agreements, ChangesOn
    PROVE  Grows
  <1>1. CustomerTypeOK'
    BY ChangesCounted DEF CustomerInv, CustomerTypeOK
  <1>2. TerminatedIsGone'
    BY DEF CustomerInv, TerminatedIsGone, Agreements
  <1>3. QED
    BY <1>1, <1>2 DEF Grows, CustomerInv, Agreements, Published

LEMMA NothingGrows ==
    ASSUME CustomerInv, UNCHANGED <<adobe, customer, agreements>>, ChangesOn
    PROVE  Grows
  BY AdobeGrows DEF CustomerInv, CustomerTypeOK

LEMMA SetRenewingGrows ==
    ASSUME CustomerInv, NEW s \in Subscriptions, NEW on \in BOOLEAN, SetRenewing(s, on),
           UNCHANGED <<customer, agreements, changes>>
    PROVE  Grows
  <1>1. /\ adobe' \in [Subscriptions -> AdobeSubscription]
        /\ \A t \in Subscriptions : adobe'[t].status = adobe[t].status
    BY DEF SetRenewing, AdobeSubscription, CustomerInv, CustomerTypeOK
  <1>2. QED
    BY <1>1, AdobeGrows DEF CustomerInv, CustomerTypeOK, ChangesOn

LEMMA ElsewhereGrows ==
    ASSUME CustomerInv, Elsewhere
    PROVE  Grows
  <1> USE DEF CustomerInv, CustomerTypeOK
  <1>1. ChangesOn
    BY DEF Elsewhere, OrderEnds, ChangesOn
  <1>2. ASSUME NEW s \in Subscriptions, AdobeAdds(s)
        PROVE  Grows
    <2>1. /\ adobe' \in [Subscriptions -> AdobeSubscription]
          /\ \A t \in Subscriptions : adobe[t].status = "INACTIVE" => adobe'[t].status = "INACTIVE"
      BY <1>2 DEF AdobeAdds, AdobeSubscription
    <2>2. QED
      BY <1>1, <1>2, <2>1, AdobeGrows DEF AdobeAdds
  <1>3. ASSUME NEW s \in Subscriptions, AdobeUpdates(s)
        PROVE  Grows
    <2>1. PICK on \in BOOLEAN, quantity \in Quantities :
             adobe' = [adobe EXCEPT ![s].renewing = on, ![s].quantity = quantity]
      BY <1>3 DEF AdobeUpdates
    <2> DEFINE first == [adobe EXCEPT ![s].renewing = on]
    <2>2. /\ first \in [Subscriptions -> AdobeSubscription]
          /\ \A t \in Subscriptions : first[t].status = adobe[t].status
      BY DEF AdobeSubscription
    <2>3. adobe' = [first EXCEPT ![s].quantity = quantity]
      BY <2>1, Zenon
    <2> HIDE DEF first
    <2>4. /\ adobe' \in [Subscriptions -> AdobeSubscription]
          /\ \A t \in Subscriptions : adobe'[t].status = adobe[t].status
      BY <2>2, <2>3 DEF AdobeSubscription
    <2>5. QED
      BY <1>1, <1>3, <2>4, AdobeGrows DEF AdobeUpdates
  <1>4. ASSUME NEW s \in Subscriptions, AdobeMovesOn(s)
        PROVE  Grows
    <2>1. /\ adobe' \in [Subscriptions -> AdobeSubscription]
          /\ \A t \in Subscriptions : adobe[t].status = "INACTIVE" => adobe'[t].status = "INACTIVE"
      BY <1>4 DEF AdobeMovesOn, AdobeSubscription
    <2>2. QED
      BY <1>1, <1>4, <2>1, AdobeGrows DEF AdobeMovesOn
  <1>5. CASE AdobeCommits \/ AdobeLosesCustomer
    <2>1. customer' \in [lost : BOOLEAN, commitment : Commitments]
          /\ (customer.lost => customer'.lost)
      BY <1>5 DEF AdobeCommits, AdobeLosesCustomer
    <2>2. QED
      BY <1>1, <1>5, <2>1, AdobeGrows DEF AdobeCommits, AdobeLosesCustomer
  <1>6. ASSUME NEW i \in Agreements, NEW s \in Subscriptions, OrderStarts(i, s) \/ OrderEnds(i, s)
        PROVE  Grows
    <2>1. PICK status \in {"Active", "Updating"} :
             agreements' = [agreements EXCEPT ![i].subscriptions[s].status = status]
      BY <1>6, Zenon DEF OrderStarts, OrderEnds
    <2>2. QED
      BY <1>1, <1>6, <2>1, StatusGrows DEF OrderStarts, OrderEnds
  <1>7. QED
    BY <1>2, <1>3, <1>4, <1>5, <1>6 DEF Elsewhere

-----------------------------------------------------------------------------
(* The jobs of the deployments.                                             *)

NoJobStep == {"resolve", "create", "save", "list", "subscribe"}

LEMMA NoJobIs ==
    /\ NoJob \in [on : SUBSET Deployments, agreement : 0 .. MaxAgreements, step : NoJobStep,
                  listed : [Subscriptions -> AdobeSubscription], todo : SUBSET Subscriptions]
    /\ NoJob.on = {} /\ NoJob.step = "resolve" /\ NoJob.agreement = 0
  <1>1. Blank \in AdobeSubscription
    BY CustomerAssumption DEF Blank, AdobeSubscription
  <1>2. NothingListed \in [Subscriptions -> AdobeSubscription]
    BY <1>1 DEF NothingListed
  <1>3. QED
    BY <1>2, CustomerAssumption DEF NoJob, NoJobStep

\* A job that comes to an end, or dies, leaves records as they should be.
LEMMA JobEnds ==
    ASSUME Inv, Grows, records' \in [Deployments -> Record],
           \A d \in Deployments : records'[d].agreement \in {0} \cup Agreements,
           job' = NoJob
    PROVE  JobInv'
  BY NoJobIs DEF Grows, JobInv, DeploymentTypeOK, JobRecorded, JobPublishes, NoJobStep

\* A record is changed that no job works on.
LEMMA OtherRecord ==
    ASSUME Inv, Grows, NEW some \in SUBSET Deployments, records' \in [Deployments -> Record],
           some \cap job.on = {},
           \A d \in Deployments \ some : records'[d] = records[d],
           \A d \in some : records'[d].agreement \in {0, records[d].agreement},
           UNCHANGED job
    PROVE  JobInv'
  BY DEF Inv, Grows, JobInv, DeploymentTypeOK, JobRecorded, JobPublishes, Published

LEMMA CheckDeploymentInv ==
    ASSUME Inv, NEW d \in Deployments, CheckDeployment(d)
    PROVE  Grows /\ JobInv'
  <1>1. Grows
    BY NothingGrows DEF CheckDeployment, customerVars, Inv, ChangesOn
  <1>2. /\ job' \in [on : SUBSET Deployments, agreement : 0 .. MaxAgreements, step : NoJobStep,
                  listed : [Subscriptions -> AdobeSubscription], todo : SUBSET Subscriptions]
        /\ job'.on = {d} /\ job'.step = "resolve" /\ job'.agreement = records[d].agreement
    BY NoJobIs DEF CheckDeployment, Inv, JobInv, DeploymentTypeOK, Record
  <1>3. QED
    BY <1>1, <1>2 DEF CheckDeployment, Grows, Inv, JobInv, DeploymentTypeOK, JobRecorded,
       JobPublishes, NoJobStep

LEMMA ResolveColumnInv ==
    ASSUME Inv, NEW d \in Deployments, ResolveColumn(d)
    PROVE  Grows /\ JobInv'
  <1>1. Grows
    BY NothingGrows DEF ResolveColumn, customerVars, Inv, ChangesOn
  <1>2. CASE records[d].resolved < Columns
    <2> DEFINE record == [records[d] EXCEPT !.resolved = @ + 1]
    <2>1. /\ record \in Record /\ record.agreement = records[d].agreement
          /\ record.status = records[d].status /\ record.licensee = records[d].licensee
      BY <1>2, ColumnsAssumption DEF Inv, JobInv, DeploymentTypeOK, Record
    <2>2. records' = [records EXCEPT ![d] = record] /\ UNCHANGED job
      BY <1>2 DEF ResolveColumn, SaveRecord
    <2> HIDE DEF record
    <2>3. /\ records' \in [Deployments -> Record]
          /\ \A e \in Deployments : /\ records'[e].agreement = records[e].agreement
                                    /\ records'[e].status = records[e].status
                                    /\ records'[e].licensee = records[e].licensee
      BY <2>1, <2>2 DEF Inv, JobInv, DeploymentTypeOK
    <2>4. QED
      BY <1>1, <2>2, <2>3 DEF Grows, Inv, JobInv, DeploymentTypeOK, JobRecorded, JobPublishes,
         Published
  <1>3. CASE ~(records[d].resolved < Columns)
    <2> DEFINE next == IF job.agreement = 0 THEN "create" ELSE "list"
    <2>1. job' = [job EXCEPT !.step = next] /\ UNCHANGED records
      BY <1>3 DEF ResolveColumn, To
    <2>2. next \in {"create", "list"} /\ (next = "list" => job.agreement # 0)
      OBVIOUS
    <2> HIDE DEF next
    <2>3. /\ DeploymentTypeOK'
          /\ job'.on = job.on /\ job'.step = next /\ job'.agreement = job.agreement
      BY <2>1, <2>2 DEF Inv, JobInv, DeploymentTypeOK
    <2>4. QED
      BY <1>1, <2>1, <2>2, <2>3 DEF ResolveColumn, At, Grows, Inv, JobInv, JobRecorded,
         JobPublishes
  <1>4. QED
    BY <1>2, <1>3

LEMMA CreateAgreementInv ==
    ASSUME Inv, NEW d \in Deployments, CreateAgreement(d)
    PROVE  Grows /\ JobInv'
  <1>1. /\ Grows /\ Agreements' = 1 .. Len(agreements) + 1
        /\ Agreements = 1 .. Len(agreements)
    BY CreateAgreementGrows DEF CreateAgreement, Inv
  <1>2. Len(agreements) \in Nat
    BY DEF Inv, CustomerInv, CustomerTypeOK
  <1> DEFINE new == Len(agreements) + 1
  <1>3. new \in 0 .. MaxAgreements /\ new # 0
    BY <1>2, CustomerAssumption DEF CreateAgreement
  <1>5. job' = [job EXCEPT !.step = "save", !.agreement = new] /\ UNCHANGED records
    BY DEF CreateAgreement
  <1>6. new \in Agreements' /\ Agreements \subseteq Agreements'
    BY <1>1, <1>2
  <1> HIDE DEF new
  <1>7. /\ DeploymentTypeOK'
        /\ job'.on = job.on /\ job'.step = "save" /\ job'.agreement = new
    BY <1>3, <1>5 DEF Inv, JobInv, DeploymentTypeOK
  <1>4. QED
    BY <1>1, <1>5, <1>6, <1>7 DEF Inv, JobInv, JobRecorded, JobPublishes

LEMMA SaveAgreementInv ==
    ASSUME Inv, NEW d \in Deployments, SaveAgreement(d)
    PROVE  Grows /\ JobInv'
  <1>1. Grows
    BY NothingGrows DEF SaveAgreement, customerVars, Inv, ChangesOn
  <1> DEFINE record == [records[d] EXCEPT !.agreement = job.agreement]
  <1>2. /\ record \in Record /\ record.agreement = job.agreement
        /\ record.status = records[d].status /\ record.licensee = records[d].licensee
    BY DEF Inv, JobInv, DeploymentTypeOK, Record
  <1>3. records' = [records EXCEPT ![d] = record]
    BY DEF SaveAgreement, SaveRecord
  <1> HIDE DEF record
  <1>4. /\ records' \in [Deployments -> Record] /\ records'[d] = record
        /\ \A e \in Deployments \ {d} : records'[e] = records[e]
    BY <1>2, <1>3 DEF Inv, JobInv, DeploymentTypeOK
  <1>5. /\ DeploymentTypeOK'
        /\ job'.on = job.on /\ job'.step = "list" /\ job'.agreement = job.agreement
    BY <1>4 DEF SaveAgreement, To, Inv, JobInv, DeploymentTypeOK
  <1>6. QED
    BY <1>1, <1>2, <1>4, <1>5 DEF SaveAgreement, At, Grows, Inv, JobInv, JobRecorded,
       JobPublishes

LEMMA ListSubscriptionsInv ==
    ASSUME Inv, NEW d \in Deployments, ListSubscriptions(d)
    PROVE  Grows /\ JobInv'
  <1>1. Grows
    BY NothingGrows DEF ListSubscriptions, customerVars, Inv, ChangesOn
  <1> DEFINE found == {s \in Subscriptions : DeploymentOf[s] = d /\ adobe[s].status # "absent"}
             listed == [s \in Subscriptions |-> IF s \in found THEN adobe[s] ELSE Blank]
             todo == {s \in found : adobe[s].status = "ACTIVE"}
  <1>2. CASE job' = NoJob
    BY <1>1, <1>2, JobEnds
    DEF ListSubscriptions, Inv, JobInv, DeploymentTypeOK, JobRecorded
  <1>3. CASE job' = [job EXCEPT !.step = "subscribe", !.listed = listed, !.todo = todo]
    <2>1. Blank \in AdobeSubscription /\ Blank.status = "absent"
      BY CustomerAssumption DEF Blank, AdobeSubscription
    <2>2. /\ listed \in [Subscriptions -> AdobeSubscription] /\ todo \in SUBSET Subscriptions
          /\ \A s \in Subscriptions :
                DeploymentOf[s] = d /\ listed[s].status = "ACTIVE" => s \in todo
      BY <2>1 DEF Inv, CustomerInv, CustomerTypeOK
    <2> HIDE DEF listed, todo
    <2>3. /\ DeploymentTypeOK'
          /\ job'.on = job.on /\ job'.step = "subscribe" /\ job'.agreement = job.agreement
          /\ job'.listed = listed /\ job'.todo = todo
      BY <1>3, <2>2 DEF ListSubscriptions, Inv, JobInv, DeploymentTypeOK
    <2>4. QED
      BY <1>1, <2>2, <2>3 DEF ListSubscriptions, At, Grows, Inv, JobInv, JobRecorded,
         JobPublishes
  <1>4. QED
    BY <1>2, <1>3 DEF ListSubscriptions

LEMMA SkipExistingInv ==
    ASSUME Inv, NEW d \in Deployments, NEW s \in Subscriptions, SkipExisting(d, s)
    PROVE  Grows /\ JobInv'
  <1>1. Grows
    BY NothingGrows DEF SkipExisting, customerVars, Inv, ChangesOn
  <1>2. /\ DeploymentTypeOK'
        /\ job'.on = job.on /\ job'.step = job.step /\ job'.agreement = job.agreement
        /\ job'.listed = job.listed /\ job'.todo = job.todo \ {s}
    BY DEF SkipExisting, Inv, JobInv, DeploymentTypeOK
  <1>3. JobRecorded'
    BY <1>1, <1>2 DEF SkipExisting, Grows, Inv, JobInv, JobRecorded
  <1>4. Published(job.agreement)' = Published(job.agreement)
    BY DEF SkipExisting, customerVars, Published
  <1>5. JobPublishes'
    BY <1>2, <1>4 DEF SkipExisting, customerVars, Existing, Inv, JobInv, JobPublishes, Published
  <1>6. QED
    BY <1>1, <1>2, <1>3, <1>5 DEF JobInv

LEMMA EnableAutoRenewalInv ==
    ASSUME Inv, NEW d \in Deployments, NEW s \in Subscriptions, EnableAutoRenewal(d, s)
    PROVE  Grows /\ JobInv'
  <1>1. Grows
    BY SetRenewingGrows DEF EnableAutoRenewal, Inv
  <1>2. adobe'[s] \in AdobeSubscription
    BY <1>1 DEF Grows, CustomerInv, CustomerTypeOK
  <1> DEFINE listed == [job.listed EXCEPT ![s] = adobe'[s]]
  <1>3. listed \in [Subscriptions -> AdobeSubscription]
        /\ \A t \in Subscriptions \ {s} : listed[t] = job.listed[t]
    BY <1>2 DEF Inv, JobInv, DeploymentTypeOK
  <1>4. job' = [job EXCEPT !.listed = listed]
    BY Zenon DEF EnableAutoRenewal
  <1> HIDE DEF listed
  <1>5. /\ DeploymentTypeOK'
        /\ job'.on = job.on /\ job'.step = job.step /\ job'.agreement = job.agreement
        /\ job'.listed = listed /\ job'.todo = job.todo
    BY <1>3, <1>4 DEF EnableAutoRenewal, Inv, JobInv, DeploymentTypeOK
  <1>6. s \in job.todo /\ UNCHANGED agreements
    BY DEF EnableAutoRenewal
  <1>7. JobRecorded' /\ JobPublishes'
    BY <1>1, <1>3, <1>5, <1>6
    DEF EnableAutoRenewal, Grows, Inv, JobInv, JobRecorded, JobPublishes, Published
  <1>8. QED
    BY <1>1, <1>5, <1>7 DEF JobInv

LEMMA CreateSubscriptionInv ==
    ASSUME Inv, NEW d \in Deployments, NEW s \in Subscriptions, CreateSubscription(d, s)
    PROVE  Grows /\ JobInv'
  <1>1. job.agreement \in Agreements
    BY DEF CreateSubscription, At, Inv, JobInv, JobRecorded
  <1>2. job.listed[s] \in AdobeSubscription
    BY DEF Inv, JobInv, DeploymentTypeOK
  <1>3. Grows /\ s \in Published(job.agreement)'
    BY <1>1, <1>2, PublishGrows DEF CreateSubscription, Inv, ChangesOn
  <1>4. /\ DeploymentTypeOK'
        /\ job'.on = job.on /\ job'.step = job.step /\ job'.agreement = job.agreement
        /\ job'.listed = job.listed /\ job'.todo = job.todo \ {s}
    BY DEF CreateSubscription, Inv, JobInv, DeploymentTypeOK
  <1>5. JobRecorded'
    BY <1>3, <1>4 DEF CreateSubscription, Grows, Inv, JobInv, JobRecorded
  <1>6. s \in {t \in Subscriptions : agreements'[job.agreement].subscriptions[t].status # "absent"}
    BY <1>3, <1>4 DEF Published
  <1>7. Published(job.agreement) \subseteq
          {t \in Subscriptions : agreements'[job.agreement].subscriptions[t].status # "absent"}
    BY <1>1, <1>3 DEF Grows, Published
  <1>8. JobPublishes'
    BY <1>4, <1>6, <1>7 DEF Inv, JobInv, JobPublishes, Published
  <1>9. QED
    BY <1>3, <1>4, <1>5, <1>8 DEF JobInv

LEMMA DeploymentCreatedInv ==
    ASSUME Inv, NEW d \in Deployments, DeploymentCreated(d)
    PROVE  Grows /\ JobInv'
  <1>1. Grows
    BY NothingGrows DEF DeploymentCreated, customerVars, Inv, ChangesOn
  <1> DEFINE record == [records[d] EXCEPT !.status = "created"]
  <1>2. record \in Record /\ record.agreement = records[d].agreement
    BY DEF Inv, JobInv, DeploymentTypeOK, Record
  <1>3. records' = [records EXCEPT ![d] = record]
    BY DEF DeploymentCreated, SaveRecord
  <1> HIDE DEF record
  <1>4. /\ records' \in [Deployments -> Record]
        /\ \A e \in Deployments : records'[e].agreement = records[e].agreement
    BY <1>2, <1>3 DEF Inv, JobInv, DeploymentTypeOK
  <1>5. QED
    BY <1>1, <1>4, JobEnds DEF DeploymentCreated, Inv, JobInv, JobRecorded

LEMMA JobFailsInv ==
    ASSUME Inv, JobFails \/ JobDies
    PROVE  Grows /\ JobInv'
  <1>1. Grows
    BY NothingGrows DEF JobFails, JobDies, customerVars, Inv, ChangesOn
  <1>2. CASE JobDies
    BY <1>1, <1>2, JobEnds DEF JobDies, Inv, JobInv, JobRecorded, DeploymentTypeOK
  <1>3. CASE JobFails
    <2>1. PICK d \in job.on : SaveRecord(d,
             [records[d] EXCEPT !.status = "error", !.agreement = job.agreement])
      BY <1>3 DEF JobFails
    <2> DEFINE record == [records[d] EXCEPT !.status = "error", !.agreement = job.agreement]
    <2>2. d \in Deployments /\ records[d] \in Record /\ job.agreement \in 0 .. MaxAgreements
      BY DEF Inv, JobInv, DeploymentTypeOK
    <2>3. record \in Record /\ record.agreement = job.agreement
      BY <2>2 DEF Record
    <2>4. records' = [records EXCEPT ![d] = record]
      BY <2>1 DEF SaveRecord
    <2> HIDE DEF record
    <2>5. /\ records' \in [Deployments -> Record]
          /\ \A e \in Deployments : records'[e].agreement \in {records[e].agreement, job.agreement}
      BY <2>2, <2>3, <2>4 DEF Inv, JobInv, DeploymentTypeOK
    <2>6. QED
      BY <1>1, <1>3, <2>5, JobEnds DEF JobFails, Inv, JobInv, JobRecorded
  <1>4. QED
    BY <1>1, <1>2, <1>3

LEMMA TeamInv ==
    ASSUME Inv, NEW d \in Deployments, AddRecord(d) \/ TeamRepairs(d)
    PROVE  Grows /\ JobInv'
  <1>1. Grows
    BY NothingGrows DEF AddRecord, TeamRepairs, customerVars, Inv, ChangesOn
  <1>2. d \notin job.on
    BY DEF AddRecord, TeamRepairs, Inv, JobInv, JobRecorded
  <1>3. PICK record \in Record : /\ records' = [records EXCEPT ![d] = record]
                                 /\ record.agreement \in {0, records[d].agreement}
    <2>1. CASE AddRecord(d)
      <3>1. [NoRecord EXCEPT !.status = "pending"] \in Record
            /\ [NoRecord EXCEPT !.status = "pending"].agreement = 0
        <4>1. NoRecord \in Record /\ NoRecord.agreement = 0
          BY CustomerAssumption, ColumnsAssumption DEF NoRecord, Record
        <4>2. QED
          BY <4>1 DEF Record
      <3>2. QED
        BY <2>1, <3>1 DEF AddRecord, SaveRecord
    <2>2. CASE TeamRepairs(d)
      <3> DEFINE record == [records[d] EXCEPT !.status = "pending", !.licensee = TRUE]
      <3>1. record \in Record /\ record.agreement = records[d].agreement
        BY DEF Inv, JobInv, DeploymentTypeOK, Record
      <3>2. records' = [records EXCEPT ![d] = record]
        BY <2>2 DEF TeamRepairs, SaveRecord
      <3> HIDE DEF record
      <3>3. QED
        BY <3>1, <3>2
    <2>3. QED
      BY <2>1, <2>2
  <1>4. /\ records' \in [Deployments -> Record]
        /\ \A e \in Deployments \ {d} : records'[e] = records[e]
        /\ records'[d].agreement \in {0, records[d].agreement}
    BY <1>3 DEF Inv, JobInv, DeploymentTypeOK
  <1>5. {d} \in SUBSET Deployments /\ {d} \cap job.on = {} /\ UNCHANGED job
    BY <1>2 DEF AddRecord, TeamRepairs
  <1>6. QED
    BY <1>1, <1>4, <1>5, OtherRecord

LEMMA DeploymentJobInv ==
    ASSUME Inv, DeploymentJob, UNCHANGED sync
    PROVE  Inv'
  <1>1. Grows /\ JobInv'
    BY CheckDeploymentInv, ResolveColumnInv, CreateAgreementInv, SaveAgreementInv,
       ListSubscriptionsInv, SkipExistingInv, EnableAutoRenewalInv, CreateSubscriptionInv,
       DeploymentCreatedInv, JobFailsInv, TeamInv
    DEF DeploymentJob
  <1>2. QED
    BY <1>1, SyncKept DEF Inv, Grows

-----------------------------------------------------------------------------
(* The steps of a sync.                                                     *)

LEMMA SnapshotIs ==
    ASSUME CustomerTypeOK, NEW some \in SUBSET Agreements
    PROVE  Snapshot(some) \in Snapshots /\ DOMAIN Snapshot(some) = some
  <1>1. some \in SUBSET Nat
    BY AgreementsAre
  <1>2. Snapshot(some) \in [some -> SUBSET Subscriptions]
    BY AgreementsAre DEF Snapshot
  <1>3. QED
    BY <1>1, <1>2 DEF Snapshots, Snapshot

LEMMA SnapshotHolds ==
    ASSUME NEW seen \in Snapshots, NEW i \in DOMAIN seen
    PROVE  seen[i] \in SUBSET Subscriptions
  <1>1. PICK some \in SUBSET Nat : seen \in [some -> SUBSET Subscriptions]
    BY DEF Snapshots
  <1>2. QED
    BY <1>1

LEMMA IdleIs ==
    /\ Idle \in SyncRecord
    /\ Idle.step = "idle" /\ Idle.agreement = 1 /\ Idle.at = 1 /\ Idle.deployments = {}
    /\ Idle.listed = NothingListed
    /\ \A s \in Subscriptions : NothingListed[s].status = "absent"
  <1>1. Blank \in AdobeSubscription /\ Blank.status = "absent"
    BY CustomerAssumption DEF Blank, AdobeSubscription
  <1>2. NothingListed \in [Subscriptions -> AdobeSubscription]
        /\ \A s \in Subscriptions : NothingListed[s].status = "absent"
    BY <1>1 DEF NothingListed
  <1>3. <<>> \in Snapshots
    <2>1. <<>> \in [{} -> SUBSET Subscriptions]
      OBVIOUS
    <2>2. QED
      BY <2>1 DEF Snapshots
  <1>4. QED
    BY <1>2, <1>3, CustomerAssumption DEF Idle, SyncRecord, SyncSteps

\* The first agreement is always there.
LEMMA FirstAgreement ==
    ASSUME Inv
    PROVE  1 \in Agreements
  <1>1. Agreements = 1 .. Len(agreements) /\ Len(agreements) \in Nat
    BY DEF Inv, CustomerInv, CustomerTypeOK, Agreements
  <1>2. QED
    BY <1>1 DEF Inv, SyncInv, SyncShape

LEMMA EndInv ==
    ASSUME Inv, Grows, End
    PROVE  SyncInv'
  <1>1. 1 \in Agreements'
    BY FirstAgreement DEF Grows
  <1>2. sync' = Idle
    BY DEF End
  <1>3. SyncShape'
    BY <1>1, <1>2, IdleIs DEF SyncShape
  <1>4. ListedGone' /\ LostForGood'
    BY <1>2, IdleIs DEF ListedGone, LostForGood
  <1>5. QED
    BY <1>3, <1>4 DEF SyncInv

\* The sync goes on to another step with the lists it holds.
LEMMA GoesOn ==
    ASSUME Inv, Grows, sync' \in SyncRecord,
           sync'.agreement = sync.agreement, sync'.at = sync.at, sync'.seen = sync.seen,
           sync'.listed = sync.listed, sync'.deployments = sync.deployments,
           sync'.step \in {"customer", "subscriptions", "add", "match", "lose"} =>
              sync.step \in {"customer", "subscriptions", "add", "match", "lose"},
           sync'.step \in {"lose", "lost", "lose deployment"} =>
              sync.step \in {"lose", "lost", "lose deployment"} \/ customer.lost
    PROVE  SyncInv'
  <1>1. SyncShape'
    BY DEF Inv, Grows, SyncInv, SyncShape
  <1>2. ListedGone' /\ LostForGood'
    BY DEF Inv, Grows, SyncInv, ListedGone, LostForGood
  <1>3. QED
    BY <1>1, <1>2 DEF SyncInv

LEMMA DoneInv ==
    ASSUME Inv, Grows, NEW s, Done(s)
    PROVE  SyncInv'
  <1>1. /\ sync' \in SyncRecord /\ sync'.step = sync.step
        /\ sync'.agreement = sync.agreement /\ sync'.at = sync.at /\ sync'.seen = sync.seen
        /\ sync'.listed = sync.listed /\ sync'.deployments = sync.deployments
    BY DEF Done, Inv, SyncInv, SyncShape, SyncRecord
  <1>2. QED
    BY <1>1, GoesOn

LEMMA NowIs ==
    ASSUME Inv, NEW step \in SyncSteps, NEW todo \in SUBSET Subscriptions,
           Now(step) \/ NowWith(step, todo)
    PROVE  /\ sync' \in SyncRecord /\ sync'.step = step
           /\ sync'.agreement = sync.agreement /\ sync'.at = sync.at /\ sync'.seen = sync.seen
           /\ sync'.listed = sync.listed /\ sync'.deployments = sync.deployments
  <1>1. CASE Now(step)
    BY <1>1 DEF Now, Inv, SyncInv, SyncShape, SyncRecord
  <1>2. CASE NowWith(step, todo)
    BY <1>2 DEF NowWith, Inv, SyncInv, SyncShape, SyncRecord
  <1>3. QED
    BY <1>1, <1>2

LEMMA StartSyncInv ==
    ASSUME Inv, NEW i \in Agreements, StartSync(i)
    PROVE  Grows /\ SyncInv'
  <1>1. Grows
    BY NothingGrows DEF StartSync, customerVars, Inv, ChangesOn
  <1>2. /\ i \in Agreements /\ i \in Nat /\ {i} \in SUBSET Agreements
        /\ agreements[i].commitment \in Commitments
    BY AgreementsAre DEF StartSync, Inv, CustomerInv, Agreement
  <1>3. Snapshot({i}) \in Snapshots /\ DOMAIN Snapshot({i}) = {i}
    BY <1>2, SnapshotIs DEF Inv, CustomerInv
  <1> DEFINE snapshot == Snapshot({i})
             commitment == agreements[i].commitment
             processing == \E s \in Kept(i) : agreements[i].subscriptions[s].status = "Updating"
  <1>4. sync' = [Idle EXCEPT !.step = "customer", !.agreement = i, !.at = i,
            !.seen = snapshot, !.was = commitment, !.processing = processing]
    BY DEF StartSync
  <1>5. snapshot \in Snapshots /\ commitment \in Commitments /\ processing \in BOOLEAN
    BY <1>2, <1>3
  <1> HIDE DEF snapshot, commitment, processing
  <1>6. /\ sync' \in SyncRecord /\ sync'.step = "customer"
        /\ sync'.agreement = i /\ sync'.at = i /\ sync'.seen = snapshot
        /\ sync'.listed = Idle.listed /\ sync'.deployments = Idle.deployments
    BY <1>2, <1>4, <1>5, IdleIs DEF SyncRecord, SyncSteps
  <1>7. SyncShape'
    BY <1>1, <1>2, <1>3, <1>6, IdleIs DEF SyncShape, Grows, snapshot
  <1>8. ListedGone' /\ LostForGood'
    BY <1>6, IdleIs DEF ListedGone, LostForGood
  <1>9. QED
    BY <1>1, <1>7, <1>8 DEF SyncInv

LEMMA CustomerSeenInv ==
    ASSUME Inv, get_customer_or_process_lost_customer
    PROVE  Grows /\ SyncInv'
  <1>1. Grows
    BY NothingGrows DEF get_customer_or_process_lost_customer, customerVars, Inv, ChangesOn
  <1>2. CASE customer.lost /\ NowWith("lose", Seen)
    <2>1. Seen \in SUBSET Subscriptions
      BY SnapshotHolds
      DEF Seen, get_customer_or_process_lost_customer, During, Inv, SyncInv, SyncShape, SyncRecord
    <2>2. "lose" \in SyncSteps
      BY DEF SyncSteps
    <2>3. /\ sync' \in SyncRecord /\ sync'.step = "lose"
          /\ sync'.agreement = sync.agreement /\ sync'.at = sync.at /\ sync'.seen = sync.seen
          /\ sync'.listed = sync.listed /\ sync'.deployments = sync.deployments
      BY <1>2, <2>1, <2>2, NowIs
    <2>4. QED
      BY <1>1, <1>2, <2>3, GoesOn DEF get_customer_or_process_lost_customer, During
  <1>3. CASE sync' = [sync EXCEPT !.step = "subscriptions", !.commitment = customer.commitment]
    <2>1. customer.commitment \in Commitments
      BY DEF Inv, CustomerInv, CustomerTypeOK
    <2>2. /\ sync' \in SyncRecord /\ sync'.step = "subscriptions"
          /\ sync'.agreement = sync.agreement /\ sync'.at = sync.at /\ sync'.seen = sync.seen
          /\ sync'.listed = sync.listed /\ sync'.deployments = sync.deployments
      BY <1>3, <2>1 DEF Inv, SyncInv, SyncShape, SyncRecord, SyncSteps
    <2>3. QED
      BY <1>1, <2>2, GoesOn DEF get_customer_or_process_lost_customer, During
  <1>4. QED
    BY <1>1, <1>2, <1>3 DEF get_customer_or_process_lost_customer

LEMMA GetSubscriptionsInv ==
    ASSUME Inv, GetSubscriptions
    PROVE  Grows /\ SyncInv'
  <1>1. Grows
    BY NothingGrows DEF GetSubscriptions, customerVars, Inv, ChangesOn
  <1>2. CASE End
    BY <1>1, <1>2, EndInv
  <1>3. CASE sync' = [sync EXCEPT !.step = "add", !.listed = adobe, !.todo = Missing(adobe)]
    <2>1. Missing(adobe) \in SUBSET Subscriptions
      BY DEF Missing, In
    <2>2. /\ sync' \in SyncRecord /\ sync'.step = "add"
          /\ sync'.agreement = sync.agreement /\ sync'.at = sync.at /\ sync'.seen = sync.seen
          /\ sync'.listed = adobe /\ sync'.deployments = sync.deployments
      BY <1>3, <2>1 DEF Inv, CustomerInv, CustomerTypeOK, SyncInv, SyncShape, SyncRecord, SyncSteps
    <2>3. SyncShape'
      BY <1>1, <2>2 DEF GetSubscriptions, During, Grows, Inv, SyncInv, SyncShape
    <2>4. ListedGone' /\ LostForGood'
      BY <2>2 DEF GetSubscriptions, customerVars, ListedGone, LostForGood
    <2>5. QED
      BY <1>1, <2>3, <2>4 DEF SyncInv
  <1>4. QED
    BY <1>2, <1>3 DEF GetSubscriptions

LEMMA AddMissingInv ==
    ASSUME Inv, AddMissing
    PROVE  Grows /\ SyncInv'
  <1>1. PICK s \in sync.todo :
           /\ IF s \in ForeignCurrency
                THEN SetRenewing(s, FALSE) /\ UNCHANGED agreements
                ELSE Publish(sync.at, s, sync.listed[s]) /\ UNCHANGED adobe
           /\ Done(s)
    BY DEF AddMissing
  <1>2. s \in Subscriptions /\ sync.at \in Agreements /\ sync.listed[s] \in AdobeSubscription
    BY DEF Inv, SyncInv, SyncShape, SyncRecord
  <1>3. UNCHANGED <<customer, changes>>
    BY DEF AddMissing
  <1>4. CASE SetRenewing(s, FALSE) /\ UNCHANGED agreements
    BY <1>1, <1>2, <1>3, <1>4, SetRenewingGrows, DoneInv DEF Inv
  <1>5. CASE Publish(sync.at, s, sync.listed[s]) /\ UNCHANGED adobe
    <2>1. Grows
      BY <1>2, <1>3, <1>5, PublishGrows DEF Inv, ChangesOn
    <2>2. QED
      BY <1>1, <2>1, DoneInv
  <1>6. QED
    BY <1>1, <1>4, <1>5

LEMMA AllAddedInv ==
    ASSUME Inv, AllAdded \/ AllMatched
    PROVE  Grows /\ SyncInv'
  <1>1. Grows
    BY NothingGrows DEF AllAdded, AllMatched, customerVars, Inv, ChangesOn
  <1>2. CASE AllAdded
    <2>1. Seen \in SUBSET Subscriptions
      BY <1>2, SnapshotHolds DEF Seen, AllAdded, During, Inv, SyncInv, SyncShape, SyncRecord
    <2>2. "match" \in SyncSteps
      BY DEF SyncSteps
    <2>3. /\ sync' \in SyncRecord /\ sync'.step = "match"
          /\ sync'.agreement = sync.agreement /\ sync'.at = sync.at /\ sync'.seen = sync.seen
          /\ sync'.listed = sync.listed /\ sync'.deployments = sync.deployments
      BY <1>2, <2>1, <2>2, NowIs DEF AllAdded
    <2>4. QED
      BY <1>1, <1>2, <2>3, GoesOn DEF AllAdded, During
  <1>3. CASE AllMatched
    <2>1. ForUpdate \in SUBSET Subscriptions
      BY DEF ForUpdate, Inv, SyncInv, SyncShape, SyncRecord
    <2>2. "update" \in SyncSteps
      BY DEF SyncSteps
    <2>3. /\ sync' \in SyncRecord /\ sync'.step = "update"
          /\ sync'.agreement = sync.agreement /\ sync'.at = sync.at /\ sync'.seen = sync.seen
          /\ sync'.listed = sync.listed /\ sync'.deployments = sync.deployments
      BY <1>3, <2>1, <2>2, NowIs DEF AllMatched
    <2>4. QED
      BY <1>1, <2>3, GoesOn
  <1>4. QED
    BY <1>2, <1>3

LEMMA TerminateGoneInv ==
    ASSUME Inv, TerminateGone
    PROVE  Grows /\ SyncInv'
  <1>1. PICK s \in Gone : TerminateCopy(sync.at, s) /\ Done(s)
    BY DEF TerminateGone
  <1>2. s \in Subscriptions /\ sync.at \in Agreements /\ adobe[s].status = "INACTIVE"
    BY DEF Gone, Inv, SyncInv, SyncShape, SyncRecord, ListedGone
  <1>3. UNCHANGED <<adobe, customer>> /\ ChangesOn
    BY DEF TerminateGone, ChangesOn
  <1>4. Grows
    BY <1>1, <1>2, <1>3, TerminateGrows DEF Inv
  <1>5. QED
    BY <1>1, <1>4, DoneInv

LEMMA UpdateSubscriptionInv ==
    ASSUME Inv, UpdateSubscription
    PROVE  Grows /\ SyncInv'
  <1>1. PICK s \in sync.todo :
           \/ UpdateCopy(sync.at, s, sync.listed[s]) /\ Done(s) /\ UNCHANGED changes
           \/ Change /\ NowWith("update", {}) /\ UNCHANGED agreements
    BY DEF UpdateSubscription
  <1>2. s \in Subscriptions /\ sync.at \in Agreements /\ sync.listed[s] \in AdobeSubscription
    BY DEF Inv, SyncInv, SyncShape, SyncRecord
  <1>3. UNCHANGED <<adobe, customer>> /\ ChangesOn
    BY <1>1 DEF UpdateSubscription, ChangesOn
  <1>4. CASE UpdateCopy(sync.at, s, sync.listed[s]) /\ Done(s)
    <2>1. Grows
      BY <1>2, <1>3, <1>4, UpdateCopyGrows DEF Inv
    <2>2. QED
      BY <1>4, <2>1, DoneInv
  <1>5. CASE NowWith("update", {}) /\ UNCHANGED agreements
    <2>1. Grows
      BY <1>3, <1>5, NothingGrows DEF Inv
    <2>2. "update" \in SyncSteps /\ {} \in SUBSET Subscriptions
      BY DEF SyncSteps
    <2>3. /\ sync' \in SyncRecord /\ sync'.step = "update"
          /\ sync'.agreement = sync.agreement /\ sync'.at = sync.at /\ sync'.seen = sync.seen
          /\ sync'.listed = sync.listed /\ sync'.deployments = sync.deployments
      BY <1>5, <2>2, NowIs
    <2>4. QED
      BY <2>1, <2>3, GoesOn
  <1>6. QED
    BY <1>1, <1>4, <1>5

LEMMA UpdateAgreementInv ==
    ASSUME Inv, UpdateAgreement
    PROVE  Grows /\ SyncInv'
  <1>1. sync.at \in Agreements /\ sync.commitment \in Commitments
    BY DEF Inv, SyncInv, SyncShape, SyncRecord
  <1>2. Grows
    BY <1>1, CommitmentGrows DEF UpdateAgreement, Inv
  <1>3. CASE End
    BY <1>2, <1>3, EndInv
  <1>4. CASE Now("copy") \/ Now("records")
    <2>1. PICK step \in {"copy", "records"} : Now(step)
      BY <1>4
    <2>2. step \in SyncSteps /\ {} \in SUBSET Subscriptions
      BY DEF SyncSteps
    <2>3. /\ sync' \in SyncRecord /\ sync'.step = step
          /\ sync'.agreement = sync.agreement /\ sync'.at = sync.at /\ sync'.seen = sync.seen
          /\ sync'.listed = sync.listed /\ sync'.deployments = sync.deployments
      BY <2>1, <2>2, NowIs
    <2>4. QED
      BY <1>2, <2>1, <2>3, GoesOn
  <1>5. QED
    BY <1>2, <1>3, <1>4 DEF UpdateAgreement

LEMMA RecordMissingInv ==
    ASSUME Inv, RecordMissingDeployments
    PROVE  Inv'
  <1>1. Grows
    BY NothingGrows DEF RecordMissingDeployments, customerVars, Inv, ChangesOn
  <1>2. "list" \in SyncSteps /\ {} \in SUBSET Subscriptions
    BY DEF SyncSteps
  <1>3. /\ sync' \in SyncRecord /\ sync'.step = "list"
        /\ sync'.agreement = sync.agreement /\ sync'.at = sync.at /\ sync'.seen = sync.seen
        /\ sync'.listed = sync.listed /\ sync'.deployments = sync.deployments
    BY <1>2, NowIs DEF RecordMissingDeployments
  <1>4. SyncInv'
    BY <1>1, <1>3, GoesOn
  <1> DEFINE some == {d \in Deployments : HasTransfer /\ records[d].status = "absent"}
             record == [NoRecord EXCEPT !.status = "pending", !.licensee = TRUE]
  <1>5. record \in Record /\ record.agreement = 0
    <2>1. NoRecord \in Record /\ NoRecord.agreement = 0
      BY CustomerAssumption, ColumnsAssumption DEF NoRecord, Record
    <2>2. QED
      BY <2>1 DEF Record
  <1>6. records' = [d \in Deployments |-> IF d \in some THEN record ELSE records[d]]
    BY DEF RecordMissingDeployments
  <1>7. some \in SUBSET Deployments /\ some \cap job.on = {}
    BY DEF Inv, JobInv, JobRecorded
  <1> HIDE DEF record, some
  <1>8. /\ records' \in [Deployments -> Record]
        /\ \A d \in Deployments \ some : records'[d] = records[d]
        /\ \A d \in some : records'[d].agreement \in {0, records[d].agreement}
    BY <1>5, <1>6, <1>7 DEF Inv, JobInv, DeploymentTypeOK
  <1>9. JobInv'
    BY <1>1, <1>7, <1>8, OtherRecord DEF RecordMissingDeployments
  <1>10. QED
    BY <1>1, <1>4, <1>9 DEF Inv, Grows

\* The sync turns to the deployments, or from one to the next.
LEMMA TurnsTo ==
    ASSUME Inv, Grows, sync' \in SyncRecord,
           sync'.agreement = sync.agreement, sync'.listed = sync.listed,
           sync'.at \in Agreements, sync'.deployments \subseteq Agreements,
           sync'.deployments \subseteq DOMAIN sync'.seen,
           sync'.step \in {"orphans", "lost"} \/ sync'.at \in DOMAIN sync'.seen,
           sync'.step \in {"lose", "lost", "lose deployment"} => customer.lost
    PROVE  SyncInv'
  <1>1. SyncShape'
    BY DEF Inv, Grows, SyncInv, SyncShape
  <1>2. ListedGone' /\ LostForGood'
    BY DEF Inv, Grows, SyncInv, ListedGone, LostForGood
  <1>3. QED
    BY <1>1, <1>2 DEF SyncInv

LEMMA ListDeploymentsInv ==
    ASSUME Inv, ListDeploymentAgreements
    PROVE  Grows /\ SyncInv'
  <1>1. Grows
    BY NothingGrows DEF ListDeploymentAgreements, customerVars, Inv, ChangesOn
  <1> DEFINE active == {i \in DeploymentAgreements : agreements[i].status = "Active"}
             snapshot == Snapshot(active)
             orphans == Orphans
  <1>2. active \subseteq Agreements /\ active \in SUBSET Nat
    BY AgreementsAre DEF DeploymentAgreements, Inv, CustomerInv
  <1>3. orphans \in SUBSET Subscriptions
    BY DEF Orphans
  <1>4. sync' = [sync EXCEPT !.step = "orphans", !.seen = snapshot, !.todo = orphans,
                             !.deployments = active]
    BY DEF ListDeploymentAgreements
  <1> HIDE DEF active
  <1>5. snapshot \in Snapshots /\ DOMAIN snapshot = active
    BY <1>2, SnapshotIs DEF Inv, CustomerInv
  <1> HIDE DEF snapshot, orphans
  <1>6. /\ sync' \in SyncRecord /\ sync'.step = "orphans"
        /\ sync'.agreement = sync.agreement /\ sync'.at = sync.at /\ sync'.seen = snapshot
        /\ sync'.listed = sync.listed /\ sync'.deployments = active
    BY <1>2, <1>3, <1>4, <1>5 DEF Inv, SyncInv, SyncShape, SyncRecord, SyncSteps
  <1>7. sync.at \in Agreements
    BY DEF Inv, SyncInv, SyncShape
  <1>8. QED
    BY <1>1, <1>2, <1>5, <1>6, <1>7, TurnsTo

LEMMA DisableOrphanInv ==
    ASSUME Inv, DisableOrphan
    PROVE  Grows /\ SyncInv'
  <1>1. PICK s \in sync.todo :
           /\ \/ SetRenewing(s, FALSE) /\ UNCHANGED changes
              \/ Change /\ UNCHANGED adobe
           /\ Done(s)
    BY DEF DisableOrphan
  <1>2. s \in Subscriptions /\ UNCHANGED <<customer, agreements>>
    BY DEF DisableOrphan, Inv, SyncInv, SyncShape, SyncRecord
  <1>3. Grows
    BY <1>1, <1>2, SetRenewingGrows, NothingGrows DEF Inv, ChangesOn
  <1>4. QED
    BY <1>1, <1>3, DoneInv

\* The next deployment of the list: its agreement was there when it was listed.
LEMMA NextIs ==
    ASSUME Inv, NEW i \in sync.deployments, NEW step \in {"match", "lose deployment"},
           sync' = [sync EXCEPT !.step = step, !.at = i, !.todo = sync.seen[i],
                                !.deployments = @ \ {i}]
    PROVE  /\ sync' \in SyncRecord /\ sync'.step = step
           /\ sync'.agreement = sync.agreement /\ sync'.at = i /\ sync'.seen = sync.seen
           /\ sync'.listed = sync.listed /\ sync'.deployments = sync.deployments \ {i}
           /\ i \in Agreements /\ i \in DOMAIN sync.seen
           /\ sync.deployments \subseteq Agreements /\ sync.deployments \subseteq DOMAIN sync.seen
  <1>1. /\ i \in Agreements /\ i \in DOMAIN sync.seen
        /\ sync.deployments \subseteq Agreements /\ sync.deployments \subseteq DOMAIN sync.seen
    BY DEF Inv, SyncInv, SyncShape
  <1> DEFINE todo == sync.seen[i]
  <1>2. i \in Nat /\ todo \in SUBSET Subscriptions
    BY <1>1, AgreementsAre, SnapshotHolds DEF Inv, CustomerInv, SyncInv, SyncShape, SyncRecord
  <1>3. sync' = [sync EXCEPT !.step = step, !.at = i, !.todo = todo, !.deployments = @ \ {i}]
    OBVIOUS
  <1> HIDE DEF todo
  <1>4. /\ sync' \in SyncRecord /\ sync'.step = step
        /\ sync'.agreement = sync.agreement /\ sync'.at = i /\ sync'.seen = sync.seen
        /\ sync'.listed = sync.listed /\ sync'.deployments = sync.deployments \ {i}
    BY <1>2, <1>3 DEF Inv, SyncInv, SyncShape, SyncRecord, SyncSteps
  <1>5. QED
    BY <1>1, <1>4

LEMMA NextDeploymentInv ==
    ASSUME Inv, NextDeployment
    PROVE  Grows /\ SyncInv'
  <1>1. Grows
    BY NothingGrows DEF NextDeployment, customerVars, Inv, ChangesOn
  <1>2. CASE End
    BY <1>1, <1>2, EndInv
  <1>3. CASE \E i \in sync.deployments :
                sync' = [sync EXCEPT !.step = "match", !.at = i, !.todo = sync.seen[i],
                                     !.deployments = @ \ {i}]
    BY <1>1, <1>3, NextIs, TurnsTo
  <1>4. QED
    BY <1>2, <1>3 DEF NextDeployment

LEMMA CopyCommitmentInv ==
    ASSUME Inv, CopyCommitment
    PROVE  Grows /\ SyncInv'
  <1>1. sync.at \in Agreements /\ sync.was \in Commitments
    BY DEF Inv, SyncInv, SyncShape, SyncRecord
  <1>2. Grows
    BY <1>1, CommitmentGrows DEF CopyCommitment, Inv
  <1>3. "orphans" \in SyncSteps /\ {} \in SUBSET Subscriptions
    BY DEF SyncSteps
  <1>4. /\ sync' \in SyncRecord /\ sync'.step = "orphans"
        /\ sync'.agreement = sync.agreement /\ sync'.at = sync.at /\ sync'.seen = sync.seen
        /\ sync'.listed = sync.listed /\ sync'.deployments = sync.deployments
    BY <1>3, NowIs DEF CopyCommitment
  <1>5. QED
    BY <1>2, <1>4, GoesOn

\* A copy of a lost customer is terminated, or left as it is.
LEMMA LosesCopy ==
    ASSUME Inv, sync.step \in {"lose", "lose deployment"}, NEW s \in sync.todo,
           \/ TerminateCopy(sync.at, s) /\ UNCHANGED changes
           \/ Change /\ UNCHANGED agreements,
           Done(s), UNCHANGED <<adobe, customer>>
    PROVE  Grows /\ SyncInv'
  <1>1. s \in Subscriptions /\ sync.at \in Agreements /\ customer.lost
    BY DEF Inv, SyncInv, SyncShape, SyncRecord, LostForGood
  <1>2. ChangesOn
    BY DEF ChangesOn
  <1>3. Grows
    BY <1>1, <1>2, TerminateGrows, NothingGrows DEF Inv
  <1>4. QED
    BY <1>3, DoneInv

LEMMA LoseSubscriptionInv ==
    ASSUME Inv, LoseSubscription
    PROVE  Grows /\ SyncInv'
  BY LosesCopy DEF LoseSubscription, During

LEMMA LostDeploymentsInv ==
    ASSUME Inv, LostDeployments
    PROVE  Grows /\ SyncInv'
  <1>1. Grows
    BY NothingGrows DEF LostDeployments, customerVars, Inv, ChangesOn
  <1>2. CASE End
    BY <1>1, <1>2, EndInv
  <1>3. CASE sync' = [sync EXCEPT !.step = "lost", !.seen = Snapshot(DeploymentAgreements),
                                  !.deployments = DeploymentAgreements]
    <2> DEFINE some == DeploymentAgreements
               snapshot == Snapshot(some)
    <2>1. some \subseteq Agreements /\ some \in SUBSET Nat
      BY AgreementsAre DEF DeploymentAgreements, Inv, CustomerInv
    <2>2. sync' = [sync EXCEPT !.step = "lost", !.seen = snapshot, !.deployments = some]
      BY <1>3
    <2> HIDE DEF some
    <2>3. snapshot \in Snapshots /\ DOMAIN snapshot = some
      BY <2>1, SnapshotIs DEF Inv, CustomerInv
    <2> HIDE DEF snapshot
    <2>4. /\ sync' \in SyncRecord /\ sync'.step = "lost"
          /\ sync'.agreement = sync.agreement /\ sync'.at = sync.at /\ sync'.seen = snapshot
          /\ sync'.listed = sync.listed /\ sync'.deployments = some
      BY <2>1, <2>2, <2>3 DEF Inv, SyncInv, SyncShape, SyncRecord, SyncSteps
    <2>5. sync.at \in Agreements /\ customer.lost
      BY DEF LostDeployments, During, Inv, SyncInv, SyncShape, LostForGood
    <2>6. QED
      BY <1>1, <2>1, <2>3, <2>4, <2>5, TurnsTo
  <1>4. QED
    BY <1>1, <1>2, <1>3 DEF LostDeployments

LEMMA LoseNextDeploymentInv ==
    ASSUME Inv, LoseNextDeployment
    PROVE  Grows /\ SyncInv'
  <1>1. Grows
    BY NothingGrows DEF LoseNextDeployment, customerVars, Inv, ChangesOn
  <1>2. CASE End
    BY <1>1, <1>2, EndInv
  <1>3. CASE \E i \in sync.deployments :
                sync' = [sync EXCEPT !.step = "lose deployment", !.at = i,
                            !.todo = sync.seen[i], !.deployments = @ \ {i}]
    <2>1. customer.lost
      BY DEF LoseNextDeployment, During, Inv, SyncInv, LostForGood
    <2>2. QED
      BY <1>1, <1>3, <2>1, NextIs, TurnsTo
  <1>4. QED
    BY <1>2, <1>3 DEF LoseNextDeployment

LEMMA LoseDeploymentSubscriptionInv ==
    ASSUME Inv, LoseDeploymentSubscription
    PROVE  Grows /\ SyncInv'
  <1>1. CASE \E s \in sync.todo :
                /\ \/ TerminateCopy(sync.at, s) /\ UNCHANGED changes
                   \/ Change /\ UNCHANGED agreements
                /\ Done(s)
    BY <1>1, LosesCopy DEF LoseDeploymentSubscription, During
  <1>2. CASE Now("lost") /\ UNCHANGED <<agreements, changes>>
    <2>1. Grows
      BY <1>2, NothingGrows DEF LoseDeploymentSubscription, Inv, ChangesOn
    <2>2. "lost" \in SyncSteps /\ {} \in SUBSET Subscriptions
      BY DEF SyncSteps
    <2>3. /\ sync' \in SyncRecord /\ sync'.step = "lost"
          /\ sync'.agreement = sync.agreement /\ sync'.at = sync.at /\ sync'.seen = sync.seen
          /\ sync'.listed = sync.listed /\ sync'.deployments = sync.deployments
      BY <1>2, <2>2, NowIs
    <2>4. sync.step = "lose deployment"
      BY DEF LoseDeploymentSubscription, During
    <2>5. QED
      BY <2>1, <2>3, <2>4, GoesOn
  <1>3. QED
    BY <1>1, <1>2 DEF LoseDeploymentSubscription

LEMMA SyncFailsInv ==
    ASSUME Inv, SyncFails
    PROVE  Grows /\ SyncInv'
  <1>1. Grows
    BY NothingGrows DEF SyncFails, Inv, ChangesOn
  <1>2. QED
    BY <1>1, EndInv DEF SyncFails

LEMMA SyncStepInv ==
    ASSUME Inv, SyncStep \/ SyncFails \/ (\E i \in Agreements : StartSync(i))
    PROVE  Inv'
  <1>1. CASE RecordMissingDeployments
    BY <1>1, RecordMissingInv
  <1>2. CASE ~RecordMissingDeployments
    <2>1. Grows /\ SyncInv'
      BY <1>2, StartSyncInv, CustomerSeenInv, GetSubscriptionsInv, AddMissingInv, AllAddedInv,
         TerminateGoneInv, UpdateSubscriptionInv, UpdateAgreementInv, ListDeploymentsInv,
         DisableOrphanInv, NextDeploymentInv, CopyCommitmentInv, LoseSubscriptionInv,
         LostDeploymentsInv, LoseNextDeploymentInv, LoseDeploymentSubscriptionInv, SyncFailsInv
      DEF SyncStep
    <2>2. UNCHANGED deploymentVars
      BY <1>2 DEF SyncStep, StartSync, get_customer_or_process_lost_customer, GetSubscriptions,
         AddMissing, AllAdded, TerminateGone, AllMatched, UpdateSubscription, UpdateAgreement,
         ListDeploymentAgreements, DisableOrphan, NextDeployment, CopyCommitment,
         LoseSubscription, LostDeployments, LoseNextDeployment, LoseDeploymentSubscription,
         SyncFails
    <2>3. QED
      BY <2>1, <2>2, JobKept DEF Inv, Grows
  <1>3. QED
    BY <1>1, <1>2

-----------------------------------------------------------------------------
(* The theorems.                                                            *)

LEMMA InitInv == Init => Inv
  <1> SUFFICES ASSUME Init PROVE Inv
    OBVIOUS
  <1>1. /\ NothingListed \in [Subscriptions -> Copy]
        /\ \A s \in Subscriptions : NothingListed[s].status = "absent"
    <2>1. Blank \in Copy /\ Blank.status = "absent"
      BY CustomerAssumption DEF Blank, Copy
    <2>2. QED
      BY <2>1 DEF NothingListed
  <1>2. NewAgreement(Main) \in Agreement
        /\ NewAgreement(Main).subscriptions = NothingListed
    BY <1>1, CustomerAssumption DEF NewAgreement, Agreement
  <1>3. /\ agreements \in Seq(Agreement) /\ Agreements = {1}
        /\ agreements[1] = NewAgreement(Main)
    BY <1>2 DEF Init, CustomerInit, Agreements
  <1>4. Blank \in AdobeSubscription /\ Bought \in AdobeSubscription
    <2>1. Blank \in AdobeSubscription
      BY CustomerAssumption DEF Blank, AdobeSubscription
    <2>2. QED
      BY <2>1 DEF Bought, AdobeSubscription
  <1>5. CustomerTypeOK
    BY <1>3, <1>4, CustomerAssumption DEF Init, CustomerInit, CustomerTypeOK
  <1>6. TerminatedIsGone
    BY <1>1, <1>2, <1>3 DEF TerminatedIsGone
  <1>7. NoRecord \in Record /\ NoRecord.agreement = 0
    BY CustomerAssumption, ColumnsAssumption DEF NoRecord, Record
  <1>8. JobInv
    BY <1>7, NoJobIs
    DEF Init, DeploymentInit, JobInv, DeploymentTypeOK, JobRecorded, JobPublishes, NoJobStep
  <1>9. SyncInv
    BY <1>3, IdleIs DEF Init, SyncInv, SyncShape, ListedGone, LostForGood
  <1>10. QED
    BY <1>5, <1>6, <1>8, <1>9 DEF Inv, CustomerInv

LEMMA NextInv == Inv /\ [Next]_vars => Inv'
  <1> SUFFICES ASSUME Inv, [Next]_vars PROVE Inv'
    OBVIOUS
  <1>1. CASE UNCHANGED vars
    <2>1. Grows
      BY <1>1, NothingGrows DEF vars, customerVars, Inv, ChangesOn
    <2>2. QED
      BY <1>1, <2>1, JobKept, SyncKept DEF vars, Inv, Grows
  <1>2. CASE Elsewhere /\ UNCHANGED <<deploymentVars, sync>>
    <2>1. Grows
      BY <1>2, ElsewhereGrows DEF Inv
    <2>2. QED
      BY <1>2, <2>1, JobKept, SyncKept DEF Inv, Grows
  <1>3. CASE DeploymentJob /\ UNCHANGED sync
    BY <1>3, DeploymentJobInv
  <1>4. QED
    BY <1>1, <1>2, <1>3, SyncStepInv DEF Next

LEMMA InvHolds == Spec => []Inv
  BY InitInv, NextInv, PTL DEF Spec

\* Agreements, records, the job and the sync hold values of their kind, and a
\* sync never looks up a copy in an agreement it has not listed (sync_agreement,
\* process_agreement_deployment).
THEOREM SyncTypeCorrect == Spec => []SyncTypeOK
  <1>1. Inv => SyncTypeOK
    BY DEF Inv, CustomerInv, JobInv, SyncInv, SyncShape, SyncRecord, SyncTypeOK, During
  <1>2. QED
    BY <1>1, InvHolds, PTL

\* A copy is terminated only when its subscription is INACTIVE at Adobe or the
\* customer is lost, for any number of agreements and subscriptions and however
\* old the lists are (_get_subscriptions_for_update, _process_lost_customer).
THEOREM TerminatedIsGoneCorrect == Spec => []TerminatedIsGone
  <1>1. Inv => TerminatedIsGone
    BY DEF Inv, CustomerInv
  <1>2. QED
    BY <1>1, InvHolds, PTL

\* A record turns created only when what the job listed of its deployment is in
\* the agreement it names, whatever jobs died before (process_agreement_deployment).
THEOREM CreatedIsPublishedCorrect == Spec => CreatedIsPublished
  <1>1. ASSUME Inv, [Next]_vars, NEW d \in Deployments,
               records[d].status # "created", records'[d].status = "created"
        PROVE  \A s \in Subscriptions :
                  DeploymentOf[s] = d /\ job.listed[s].status = "ACTIVE" =>
                      s \in Published(records'[d].agreement)
    <2>1. records \in [Deployments -> Record] /\ records' # records
      BY <1>1 DEF Inv, JobInv, DeploymentTypeOK
    <2>2. ASSUME NEW e \in Deployments, NEW record \in Record, record.status # "created",
                 records' = [records EXCEPT ![e] = record]
          PROVE  FALSE
      BY <1>1, <2>1, <2>2
    <2>3. ASSUME NEW e \in Deployments, ResolveColumn(e)
          PROVE  FALSE
      <3>1. records[e] \in Record /\ records[e].resolved < Columns /\ records[e].status # "created"
        BY <1>1, <2>1, <2>3 DEF ResolveColumn, At, Inv, JobInv, JobRecorded
      <3> DEFINE record == [records[e] EXCEPT !.resolved = @ + 1]
      <3>2. record \in Record /\ record.status = records[e].status
        BY <3>1, ColumnsAssumption DEF Record
      <3>3. records' = [records EXCEPT ![e] = record]
        BY <3>1, <2>3 DEF ResolveColumn, SaveRecord
      <3> HIDE DEF record
      <3>4. QED
        BY <2>2, <3>1, <3>2, <3>3
    <2>4. ASSUME NEW e \in Deployments, SaveAgreement(e)
          PROVE  FALSE
      <3> DEFINE record == [records[e] EXCEPT !.agreement = job.agreement]
      <3>1. record \in Record /\ record.status # "created"
        BY <1>1, <2>1, <2>4 DEF SaveAgreement, At, Inv, JobInv, JobRecorded, DeploymentTypeOK, Record
      <3>2. records' = [records EXCEPT ![e] = record]
        BY <2>4 DEF SaveAgreement, SaveRecord
      <3> HIDE DEF record
      <3>3. QED
        BY <2>2, <3>1, <3>2
    <2>5. CASE JobFails
      <3>1. PICK e \in job.on : SaveRecord(e,
               [records[e] EXCEPT !.status = "error", !.agreement = job.agreement])
        BY <2>5 DEF JobFails
      <3> DEFINE record == [records[e] EXCEPT !.status = "error", !.agreement = job.agreement]
      <3>2. e \in Deployments /\ records[e] \in Record /\ job.agreement \in 0 .. MaxAgreements
        BY <1>1 DEF Inv, JobInv, DeploymentTypeOK
      <3>3. record \in Record /\ record.status # "created"
        BY <3>2 DEF Record
      <3>4. records' = [records EXCEPT ![e] = record]
        BY <3>1 DEF SaveRecord
      <3> HIDE DEF record
      <3>5. QED
        BY <2>2, <3>2, <3>3, <3>4
    <2>6. ASSUME NEW e \in Deployments, AddRecord(e) \/ TeamRepairs(e)
          PROVE  FALSE
      <3>1. NoRecord \in Record
        BY CustomerAssumption, ColumnsAssumption DEF NoRecord, Record
      <3>2. PICK was \in Record :
               \/ records' = [records EXCEPT ![e] = [was EXCEPT !.status = "pending"]]
               \/ records' = [records EXCEPT ![e] =
                                 [was EXCEPT !.status = "pending", !.licensee = TRUE]]
        BY <2>1, <2>6, <3>1, Zenon DEF AddRecord, TeamRepairs, SaveRecord
      <3>3. /\ [was EXCEPT !.status = "pending"] \in Record
            /\ [was EXCEPT !.status = "pending"].status # "created"
        BY DEF Record
      <3>4. /\ [was EXCEPT !.status = "pending", !.licensee = TRUE] \in Record
            /\ [was EXCEPT !.status = "pending", !.licensee = TRUE].status # "created"
        BY DEF Record
      <3>5. QED
        BY <2>2, <3>2, <3>3, <3>4, Zenon
    <2>7. CASE RecordMissingDeployments
      <3>1. [NoRecord EXCEPT !.status = "pending", !.licensee = TRUE].status # "created"
        <4>1. NoRecord \in Record
          BY CustomerAssumption, ColumnsAssumption DEF NoRecord, Record
        <4>2. QED
          BY <4>1 DEF Record
      <3> DEFINE record == [NoRecord EXCEPT !.status = "pending", !.licensee = TRUE]
      <3>2. records' = [e \in Deployments |->
                IF HasTransfer /\ records[e].status = "absent" THEN record ELSE records[e]]
        BY <2>7 DEF RecordMissingDeployments
      <3>3. record.status # "created"
        BY <3>1
      <3> HIDE DEF record
      <3>4. QED
        BY <1>1, <3>2, <3>3
    <2>8. ASSUME NEW e \in Deployments, DeploymentCreated(e)
          PROVE  \A s \in Subscriptions :
                  DeploymentOf[s] = d /\ job.listed[s].status = "ACTIVE" =>
                      s \in Published(records'[d].agreement)
      <3> DEFINE record == [records[e] EXCEPT !.status = "created"]
      <3>1. record \in Record /\ record.agreement = records[e].agreement
        BY <2>1 DEF Record
      <3>2. records' = [records EXCEPT ![e] = record]
        BY <2>8 DEF DeploymentCreated, SaveRecord
      <3> HIDE DEF record
      <3>3. e = d /\ records'[d].agreement = records[d].agreement
        BY <1>1, <2>1, <3>1, <3>2
      <3>4. job.on = {d} /\ job.step = "subscribe" /\ job.todo = {}
        BY <2>8, <3>3 DEF DeploymentCreated, At
      <3>5. records[d].agreement = job.agreement
        BY <1>1, <3>4 DEF Inv, JobInv, JobRecorded
      <3>6. QED
        BY <1>1, <3>3, <3>4, <3>5 DEF Inv, JobInv, JobPublishes
    <2>9. UNCHANGED records
            \/ (\E e \in Deployments :
                   \/ ResolveColumn(e) \/ SaveAgreement(e) \/ DeploymentCreated(e)
                   \/ AddRecord(e) \/ TeamRepairs(e))
            \/ JobFails \/ RecordMissingDeployments
      BY <1>1 DEF Next, vars, deploymentVars, DeploymentJob, CheckDeployment, CreateAgreement,
         ListSubscriptions, SkipExisting, EnableAutoRenewal, CreateSubscription, JobDies,
         SyncStep, StartSync, get_customer_or_process_lost_customer, GetSubscriptions,
         AddMissing, AllAdded, TerminateGone, AllMatched, UpdateSubscription, UpdateAgreement,
         ListDeploymentAgreements, DisableOrphan, NextDeployment, CopyCommitment,
         LoseSubscription, LostDeployments, LoseNextDeployment, LoseDeploymentSubscription,
         SyncFails
    <2>10. QED
      BY <2>1, <2>3, <2>4, <2>5, <2>6, <2>7, <2>8, <2>9
  <1>2. Inv /\ [Next]_vars =>
          [\A d \in Deployments :
             records[d].status # "created" /\ records'[d].status = "created" =>
              \A s \in Subscriptions :
                  DeploymentOf[s] = d /\ job.listed[s].status = "ACTIVE" =>
                      s \in Published(records'[d].agreement)]_vars
    BY <1>1
  <1>3. QED
    BY <1>2, InvHolds, PTL DEF Spec, CreatedIsPublished
===============================================================================
