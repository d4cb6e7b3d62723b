-------------------------- MODULE DemoBuilds_proofs ---------------------------
(* Proofs about DemoBuilds, for any number of requests, pages and slots, any  *)
(* demos asked for, and any bounds.                                           *)
EXTENDS DemoBuilds, TLAPS

\* What was read of guest.yaml is of this life, of an earlier one, or nothing.
Fits(e) == e = NoMeta \/ e = meta \/ e.life < meta.life

\* A request is at a step of its kind; a build has seen nothing yet of the demo.
PlanFits(b) ==
    /\ state[b] = "idle" => plan[b] = NoPlan
    /\ state[b] = "read" => plan[b].demo \in Demos /\ plan[b].seen = {}
    /\ state[b] \notin {"idle", "read"} => plan[b].demo = Patch /\ ~ plan[b].listed
    /\ Fits(plan[b].meta)

\* A delete pass has files of the sandbox to delete, and its guest.yaml only once it has
\* expired.
PassFits ==
    pass # NoPass => /\ pass \subseteq dir
                     /\ "guest" \in pass => expired

Steps ==
    /\ \A b \in Builders : PlanFits(b)
    /\ Fits(guestList.entry)
    /\ PassFits
    /\ creating = "seeded" => ~ Held /\ meta.life < MaxLives
    /\ pending # {} => "late" \in amiss

\* The sandbox lives, or is about to.  DemoWhole and WholeLists say what there is to see
\* of a live one; why it stays so is said by the requests under way: each of them has
\* begun in this life.
Lives == Held /\ ~ expired
Sound == amiss = {} /\ (Lives \/ creating = "seeded")

\* The demo's files are exactly d's, for the sandbox's slot.
Shows(d) == /\ There = Plan(d)
            /\ \A k \in There : text[k] = Rendered(d, {}, meta.slot)[k]

\* One build at a time has found no demo, and there is none yet; a patch works on the
\* Api of the demo there is, and has seen all of its files.
BuildFits(b) ==
    /\ state[b] = "read" => plan[b].meta = NoMeta \/ (Lives /\ plan[b].meta = meta)
    /\ plan[b].listed => There = {} /\ \A c \in Builders \ {b} : ~ plan[c].listed
    /\ state[b] \in {"check", "list", "upsert"} => plan[b].meta = meta
    /\ state[b] \in {"list", "upsert"} => "Api" \in There
    /\ state[b] = "upsert" => plan[b].seen = There /\ "WorkflowSpace" \notin There

\* What a page has found and what it has still to fetch is the whole demo, or nothing.
PageFits(p) ==
    unread[p] # Idle => found[p].failed \/ unread[p] \cup found[p].kinds \in {{}, There}

\* There is one whole demo or none, no pass is to take any of it, and every request
\* counts on that.
Demo ==
    /\ pass = NoPass \/ pass \subseteq {"namespace"}
    /\ There # {} => Lives /\ \E d \in Demos : Shows(d)
    /\ \A b \in Builders : BuildFits(b)

\* Nor is there a part of it in the cache, or on its way there.
Lists ==
    /\ resCache.set => resCache.kinds \in {{}, There}
    /\ \A p \in Pages : PageFits(p)

\* A page that asks for nothing has found nothing.
Unasked == \A p \in Pages : unread[p] = Idle => found[p] = NotFound

\* The inductive invariant: what is so of every sandbox, and what is so of a live one.
IInv == TypeOK /\ Steps /\ Unasked /\ (Sound => Demo /\ Lists)

\* The steps a request goes through, and what can go wrong.
States == {"idle", "read", "load", "loaded", "check", "list", "upsert"}
Amiss  == {"overlap", "lag", "late", "straddle", "leftover"}
------------------------------------------------------------------------------
\* The kinds of a demo are kinds, and a workflow space is part of its own demo alone.
LEMMA DemoFacts ==
    ASSUME Parameters, NEW d \in Demos
    PROVE  /\ Plan(d) \subseteq Kinds /\ Plan(d) # {}
           /\ "WorkflowSpace" \in Plan(d) <=> d.kind = "WorkflowSpace"
           /\ d # Patch
  <1>1. d.kind \in {"Api", "Spa", "WorkflowSpace"} /\ d # Patch
    BY DEF Parameters, Demos
  <1>2. CASE d.kind = "Api"
    <2>1. Plan(d) = {"Api"} \cup (d.addons \cap (Siblings \cup {"Spa"}))
      BY <1>2 DEF Plan
    <2> QED
      BY <1>1, <1>2, <2>1 DEF Kinds, Siblings
  <1>3. CASE d.kind = "Spa"
    <2>1. Plan(d) = {"Spa"} \cup (d.addons \cap {"Api"})
      BY <1>3 DEF Plan
    <2> QED
      BY <1>1, <1>3, <2>1 DEF Kinds, Siblings
  <1>4. CASE d.kind = "WorkflowSpace"
    <2>1. Plan(d) = {"WorkflowSpace", "Api"}
      BY <1>4 DEF Plan
    <2> QED
      BY <1>1, <1>4, <2>1 DEF Kinds, Siblings
  <1> QED
    BY <1>1, <1>2, <1>3, <1>4

\* A rendered file is a text.
LEMMA ParamsFacts ==
    ASSUME NEW kind, NEW slot \in Slots \cup {NoSlot}, NEW files, NEW flow \in BOOLEAN
    PROVE  Params(kind, slot, files, flow) \in Texts
  <1>1. /\ (IF kind \in {"Api", "Spa"} THEN slot ELSE NoSlot) \in Slots \cup {NoSlot}
        /\ (IF kind = "Api" THEN files \cap Siblings ELSE {}) \in SUBSET Siblings
    OBVIOUS
  <1>2. (kind = "Api" /\ flow) \in BOOLEAN
    OBVIOUS
  <1> QED
    BY <1>1, <1>2 DEF Params, Texts

\* What a request is to commit are files of the demo it is for.
LEMMA FilesFacts ==
    ASSUME Parameters, TypeOK, NEW b \in Builders, PlanFits(b), Ready(b)
    PROVE  /\ Files(b) \in [DOMAIN Files(b) -> Texts] /\ DOMAIN Files(b) \subseteq Kinds
           /\ state[b] = "upsert" =>
                /\ DOMAIN Files(b) = {"Api"}
                /\ Files(b)["Api"] = Params("Api", plan[b].meta.slot, plan[b].seen, FALSE)
           /\ state[b] = "read" =>
                /\ plan[b].demo \in Demos /\ plan[b].seen = {} /\ plan[b].meta # NoMeta
                /\ plan[b].listed
                /\ Files(b) = Rendered(plan[b].demo, {}, plan[b].meta.slot)
                /\ DOMAIN Files(b) = Plan(plan[b].demo)
  <1>1. plan[b] \in Plans /\ plan[b].meta.slot \in Slots \cup {NoSlot} /\ plan[b].seen \in SUBSET Kinds
    BY DEF TypeOK, Plans, Metas
  <1>2. CASE state[b] = "upsert"
    <2>1. Files(b) = [k \in {"Api"} |-> Params("Api", plan[b].meta.slot, plan[b].seen, FALSE)]
      BY <1>2 DEF PlanFits, Files
    <2>2. Params("Api", plan[b].meta.slot, plan[b].seen, FALSE) \in Texts
      BY <1>1, ParamsFacts
    <2> QED
      BY <1>2, <2>1, <2>2 DEF Kinds
  <1>3. CASE state[b] = "read"
    <2>1. /\ plan[b].demo \in Demos /\ plan[b].seen = {} /\ plan[b].meta # NoMeta /\ plan[b].listed
      BY <1>3 DEF PlanFits, Ready, HasRead
    <2>2. Files(b) = Rendered(plan[b].demo, {}, plan[b].meta.slot)
      BY <2>1, DemoFacts DEF Files
    <2>3. PICK d \in Demos : d = plan[b].demo
      BY <2>1
    <2>4. PICK slot \in Slots \cup {NoSlot} : slot = plan[b].meta.slot
      BY <1>1
    <2>5. ASSUME NEW k \in Plan(d)
          PROVE  Params(k, slot, {} \cup Plan(d), d.kind = "WorkflowSpace") \in Texts
      BY ParamsFacts
    <2>6. Rendered(d, {}, slot) \in [Plan(d) -> Texts] /\ DOMAIN Rendered(d, {}, slot) = Plan(d)
      BY <2>5 DEF Rendered
    <2>7. Plan(d) \subseteq Kinds
      BY DemoFacts
    <2> QED
      BY <1>3, <2>1, <2>2, <2>3, <2>4, <2>6, <2>7
  <1> QED
    BY <1>2, <1>3 DEF Ready

\* Files that land are there, and say what they are to say.
LEMMA LandFacts ==
    ASSUME TypeOK, NEW files, files \in [DOMAIN files -> Texts], DOMAIN files \subseteq Kinds,
           Land(files)
    PROVE  /\ dir' = dir \cup DOMAIN files /\ dir' \subseteq Kinds \cup Infra
           /\ text' \in [Kinds -> Texts]
           /\ \A k \in DOMAIN files : text'[k] = files[k]
           /\ \A k \in Kinds \ DOMAIN files : text'[k] = text[k]
           /\ There' = There \cup DOMAIN files
           /\ Held' = Held
           /\ UNCHANGED <<meta, expired>>
  <1>1. /\ dir' = dir \cup DOMAIN files
        /\ text' = [k \in Kinds |-> IF k \in DOMAIN files THEN files[k] ELSE text[k]]
        /\ UNCHANGED <<meta, expired>>
    BY DEF Land
  <1>2. text' \in [Kinds -> Texts]
    BY <1>1 DEF TypeOK
  <1>3. "guest" \notin Kinds
    BY DEF Kinds, Siblings
  <1> QED
    BY <1>1, <1>2, <1>3 DEF TypeOK, There, Held
------------------------------------------------------------------------------
\* Where the sandbox and the requests stay, so does what they count on.
LEMMA DemoStays ==
    ASSUME UNCHANGED <<dir, text, meta, expired, pass, state, plan>>
    PROVE  /\ There' = There /\ (Lives' <=> Lives) /\ (Held' <=> Held)
           /\ Demo => Demo'
  <1>1. UNCHANGED <<dir, text, meta, expired, pass, state, plan>>
    OBVIOUS
  <1>2. There' = There /\ (Lives' <=> Lives) /\ (Held' <=> Held)
    BY <1>1 DEF There, Lives, Held
  <1>3. \A b \in Builders : BuildFits(b) => BuildFits(b)'
    BY <1>1, <1>2 DEF BuildFits
  <1>4. \A d : Shows(d)' <=> Shows(d)
    BY <1>1, <1>2 DEF Shows
  <1> QED
    BY <1>1, <1>2, <1>3, <1>4 DEF Demo

\* Where nobody acts on it, it is as before what the requests are to do.
LEMMA StepsStay ==
    ASSUME Steps, UNCHANGED <<dir, meta, expired, creating, pass, state, plan, pending, guestList>>,
           amiss \subseteq amiss'
    PROVE  Steps'
  <1>1. UNCHANGED <<dir, meta, expired, creating, pass, state, plan, pending, guestList>>
    OBVIOUS
  <1>2. \A e : Fits(e)' <=> Fits(e)
    BY <1>1 DEF Fits
  <1>3. \A b \in Builders : PlanFits(b)' <=> PlanFits(b)
    BY <1>1, <1>2 DEF PlanFits
  <1>4. PassFits' <=> PassFits
    BY <1>1 DEF PassFits
  <1>5. Fits(guestList.entry)' <=> Fits(guestList.entry)
    BY <1>1 DEF Fits
  <1> QED
    BY <1>1, <1>3, <1>4, <1>5 DEF Steps, Held

\* What was found when there was nothing is nothing; and a list of what is there stays one.
LEMMA ListsStay ==
    ASSUME Lists, UNCHANGED <<resCache, unread, found>>, There' = There \/ There = {}
    PROVE  Lists'
  <1>1. UNCHANGED <<resCache, unread, found>>
    OBVIOUS
  <1>2. \A p \in Pages : PageFits(p) => PageFits(p)'
    BY <1>1 DEF PageFits
  <1> QED
    BY <1>1, <1>2 DEF Lists

\* A step of one request: what has to be shown of that request is enough.
LEMMA BuilderStep ==
    ASSUME IInv, NEW b \in Builders, NEW s \in States, NEW q \in Plans,
           state' = [state EXCEPT ![b] = s], plan' = [plan EXCEPT ![b] = q],
           UNCHANGED <<dir, text, meta, expired, creating, pass, resCache, unread, found, shown>>,
           \A files \in pending' : files \in [DOMAIN files -> Texts] /\ DOMAIN files \subseteq Kinds,
           pending' # {} => "late" \in amiss',
           guestList' \in [set : BOOLEAN, entry : Metas], Fits(guestList.entry)',
           builds' \in 0..MaxBuilds, errors' \in 0..MaxErrors,
           amiss \subseteq amiss', amiss' \subseteq Amiss,
           PlanFits(b)', Sound' => BuildFits(b)'
    PROVE  IInv'
  <1>1. /\ TypeOK /\ Steps
        /\ UNCHANGED <<dir, text, meta, expired, creating, pass, resCache, unread, found, shown>>
    BY DEF IInv
  <1>2. /\ state'[b] = s /\ plan'[b] = q
        /\ \A c \in Builders \ {b} : state'[c] = state[c] /\ plan'[c] = plan[c]
    BY <1>1 DEF TypeOK
  <1>3. TypeOK'
    <2>1. state' \in [Builders -> States] /\ plan' \in [Builders -> Plans]
      BY <1>1 DEF TypeOK, States
    <2> QED
      BY <1>1, <2>1 DEF TypeOK, States, Amiss
  <1>4. There' = There /\ (Lives' <=> Lives) /\ (Held' <=> Held)
    BY <1>1 DEF There, Lives, Held
  <1>5. ASSUME NEW c \in Builders PROVE PlanFits(c)'
    <2>1. CASE c = b
      BY <2>1
    <2>2. CASE c # b
      BY <1>1, <1>2, <2>2 DEF Steps, PlanFits, Fits
    <2> QED
      BY <2>1, <2>2
  <1>6. Steps'
    <2>1. PassFits'
      BY <1>1 DEF Steps, PassFits
    <2> QED
      BY <1>1, <1>4, <1>5, <2>1 DEF Steps
  <1>7. ASSUME Sound' PROVE (Demo /\ Lists)'
    <2>1. Sound /\ Demo /\ Lists
      BY <1>1, <1>4, <1>7 DEF Sound, IInv
    <2>2. ASSUME NEW c \in Builders PROVE BuildFits(c)'
      <3>1. CASE c = b
        BY <1>7, <3>1
      <3>2. CASE c # b
        <4>1. BuildFits(c) /\ BuildFits(b)'
          BY <1>7, <2>1 DEF Demo
        <4>2. plan[c].listed => There = {} /\ \A d \in Builders \ {c} : ~ plan'[d].listed
          BY <1>2, <3>2, <4>1 DEF BuildFits
        <4> QED
          BY <1>1, <1>2, <1>4, <3>2, <4>1, <4>2 DEF BuildFits
      <3> QED
        BY <3>1, <3>2
    <2>3. \A d : Shows(d)' <=> Shows(d)
      BY <1>1, <1>4 DEF Shows
    <2>4. Demo'
      BY <1>1, <1>4, <2>1, <2>2, <2>3 DEF Demo
    <2>5. Lists'
      BY <1>1, <1>4, <2>1, ListsStay
    <2> QED
      BY <2>4, <2>5
  <1>8. Unasked'
    BY <1>1 DEF IInv, Unasked
  <1> QED
    BY <1>3, <1>6, <1>7, <1>8 DEF IInv

\* A request that was answered counts on nothing any more.
LEMMA AnswerFacts ==
    ASSUME Parameters, TypeOK, NEW b \in Builders, Answer(b)
    PROVE  /\ "idle" \in States /\ NoPlan \in Plans
           /\ state' = [state EXCEPT ![b] = "idle"] /\ plan' = [plan EXCEPT ![b] = NoPlan]
           /\ PlanFits(b)' /\ BuildFits(b)'
  <1>1. state' = [state EXCEPT ![b] = "idle"] /\ plan' = [plan EXCEPT ![b] = NoPlan]
    BY DEF Answer, Goto
  <1>2. state'[b] = "idle" /\ plan'[b] = NoPlan
    BY <1>1 DEF TypeOK
  <1>3. NoMeta \in Metas
    BY DEF NoMeta, Metas, Parameters
  <1>4. NoPlan \in Plans /\ NoPlan.meta = NoMeta /\ ~ NoPlan.listed
    BY <1>3 DEF NoPlan, Plans
  <1> QED
    BY <1>1, <1>2, <1>4 DEF States, PlanFits, BuildFits, Fits

\* One more request to GitHub that fails, or lags, is within the bound.
LEMMA ErrorFacts ==
    ASSUME Parameters, TypeOK, Error \/ UNCHANGED errors
    PROVE  errors' \in 0..MaxErrors
  BY DEF Parameters, TypeOK, Error
------------------------------------------------------------------------------
\* There is no sandbox at first.
LEMMA InitIInv ==
    ASSUME Parameters, Init
    PROVE  IInv
  <1>1. NoMeta \in Metas /\ NoPlan \in Plans /\ NoPlan.meta = NoMeta /\ Blank \in Texts
    BY DEF NoMeta, Metas, Parameters, NoPlan, Plans, Blank, Texts
  <1>2. TypeOK
    <2>1. 0 \in 0..MaxBuilds /\ 0 \in 0..MaxErrors
      BY DEF Parameters
    <2>2. /\ NoList \in [set : BOOLEAN, entry : Metas]
          /\ NoCache \in [set : BOOLEAN, kinds : SUBSET Kinds]
          /\ NotFound \in [kinds : SUBSET Kinds, failed : BOOLEAN]
      BY <1>1 DEF NoList, NoCache, NotFound
    <2> QED
      BY <1>1, <2>1, <2>2 DEF Init, TypeOK
  <1>3. Steps
    BY <1>1 DEF Init, Steps, PlanFits, Fits, PassFits, NoList
  <1>4. ~ Sound /\ Unasked
    BY DEF Init, Sound, Lives, Held, Unasked
  <1> QED
    BY <1>2, <1>3, <1>4 DEF IInv

\* A request that arrives has read nothing.
LEMMA AskKeeps ==
    ASSUME Parameters, IInv, NEW b \in Builders, Ask(b)
    PROVE  IInv'
  <1>1. PICK d \in Asked :
           /\ plan' = [plan EXCEPT ![b].demo = d]
           /\ Goto(b, IF d = Patch THEN "load" ELSE "read")
    BY DEF Ask
  <1>2. /\ TypeOK /\ Steps /\ state[b] = "idle" /\ builds < MaxBuilds /\ builds' = builds + 1
        /\ UNCHANGED <<dir, text, meta, expired, creating, pass, pending, guestList, resCache,
                       unread, found, shown, errors, amiss>>
    BY DEF Ask, IInv, sandbox, cleaning, paging
  <1>3. PICK q : q = [plan[b] EXCEPT !.demo = d]
    OBVIOUS
  <1>4. PICK s \in States : s = IF d = Patch THEN "load" ELSE "read"
    BY DEF States
  <1>5. /\ plan[b] \in Plans /\ plan[b].meta = NoMeta /\ ~ plan[b].listed /\ plan[b].seen = {}
    BY <1>2 DEF Steps, PlanFits, TypeOK, NoPlan
  <1>6. q \in Plans /\ q.demo = d /\ q.meta = NoMeta /\ ~ q.listed /\ q.seen = {}
    BY <1>3, <1>5 DEF Plans
  <1>7. plan' = [plan EXCEPT ![b] = q] /\ state' = [state EXCEPT ![b] = s]
    BY <1>1, <1>2, <1>3, <1>4 DEF Goto, TypeOK
  <1>8. plan'[b] = q /\ state'[b] = s
    BY <1>2, <1>7 DEF TypeOK
  <1>9. PlanFits(b)' /\ BuildFits(b)'
    BY <1>4, <1>6, <1>8 DEF PlanFits, BuildFits, Fits, Demos
  <1>10. builds' \in 0..MaxBuilds /\ errors' \in 0..MaxErrors
    BY <1>2 DEF TypeOK, Parameters
  <1>11. /\ \A files \in pending' :
              files \in [DOMAIN files -> Texts] /\ DOMAIN files \subseteq Kinds
         /\ pending' # {} => "late" \in amiss'
         /\ guestList' \in [set : BOOLEAN, entry : Metas]
         /\ amiss \subseteq amiss' /\ amiss' \subseteq Amiss
    BY <1>2 DEF TypeOK, Steps, Amiss
  <1>12. Fits(guestList.entry)'
    BY <1>2 DEF Steps, Fits
  <1> QED
    BY <1>2, <1>6, <1>7, <1>9, <1>10, <1>11, <1>12, BuilderStep

\* What BuilderStep asks for and the requests leave alone.
LEMMA BuilderFrame ==
    ASSUME Parameters, IInv, UNCHANGED <<meta, pending, guestList, builds>>,
           Error \/ UNCHANGED errors
    PROVE  /\ \A files \in pending' :
                 files \in [DOMAIN files -> Texts] /\ DOMAIN files \subseteq Kinds
           /\ guestList' \in [set : BOOLEAN, entry : Metas]
           /\ Fits(guestList.entry)'
           /\ builds' \in 0..MaxBuilds /\ errors' \in 0..MaxErrors
           /\ amiss \subseteq Amiss
           /\ \A now : amiss \subseteq now /\ pending' # {} => "late" \in now
  <1>1. TypeOK /\ Steps
    BY DEF IInv
  <1>2. errors' \in 0..MaxErrors
    BY <1>1, ErrorFacts
  <1>3. Fits(guestList.entry)'
    BY <1>1 DEF Steps, Fits
  <1> QED
    BY <1>1, <1>2, <1>3 DEF TypeOK, Steps, Amiss

\* A request reads something and goes on.
LEMMA ProgressKeeps ==
    ASSUME Parameters, IInv, NEW b \in Builders, NEW s \in States, NEW q \in Plans,
           state' = [state EXCEPT ![b] = s], plan' = [plan EXCEPT ![b] = q],
           Error \/ UNCHANGED errors, amiss \subseteq amiss', amiss' \subseteq Amiss,
           UNCHANGED <<dir, text, meta, expired, creating, pass, pending, guestList, resCache,
                       unread, found, shown, builds>>,
           PlanFits(b)', Sound' => BuildFits(b)'
    PROVE  IInv'
  <1>1. /\ \A files \in pending' :
              files \in [DOMAIN files -> Texts] /\ DOMAIN files \subseteq Kinds
        /\ guestList' \in [set : BOOLEAN, entry : Metas]
        /\ Fits(guestList.entry)'
        /\ builds' \in 0..MaxBuilds /\ errors' \in 0..MaxErrors
    BY BuilderFrame
  <1>2. pending' # {} => "late" \in amiss'
    BY BuilderFrame
  <1> QED
    BY <1>1, <1>2, BuilderStep

\* A request is answered and changes nothing.
LEMMA AnswerKeeps ==
    ASSUME Parameters, IInv, NEW b \in Builders, Answer(b), Error \/ UNCHANGED errors,
           UNCHANGED <<dir, text, meta, expired, creating, pass, pending, guestList, resCache,
                       unread, found, shown, builds, amiss>>
    PROVE  IInv'
  <1>1. /\ "idle" \in States /\ NoPlan \in Plans
        /\ state' = [state EXCEPT ![b] = "idle"] /\ plan' = [plan EXCEPT ![b] = NoPlan]
        /\ PlanFits(b)' /\ BuildFits(b)'
    BY AnswerFacts DEF IInv
  <1>2. amiss \subseteq amiss' /\ amiss' \subseteq Amiss
    BY DEF IInv, TypeOK, Amiss
  <1> QED
    BY <1>1, <1>2, ProgressKeeps

\* A request reads guest.yaml of a live sandbox, of this life.
LEMMA ReadMetaKeeps ==
    ASSUME Parameters, IInv, NEW b \in Builders, ReadMeta(b)
    PROVE  IInv'
  <1>1. /\ TypeOK /\ Steps /\ state[b] = "read"
        /\ UNCHANGED <<dir, text, meta, expired, creating, pass, pending, guestList, resCache,
                       unread, found, shown, builds, errors, amiss>>
    BY DEF ReadMeta, IInv, sandbox, cleaning, paging, tallies
  <1>2. CASE Answer(b)
    BY <1>1, <1>2, AnswerKeeps
  <1>3. CASE Lives /\ plan' = [plan EXCEPT ![b].meta = meta] /\ UNCHANGED state
    <2>1. PICK q : q = [plan[b] EXCEPT !.meta = meta]
      OBVIOUS
    <2>2. plan[b] \in Plans /\ meta \in Metas
      BY <1>1 DEF TypeOK
    <2>3. /\ q \in Plans /\ q.meta = meta
          /\ q.demo = plan[b].demo /\ q.listed = plan[b].listed /\ q.seen = plan[b].seen
      BY <2>1, <2>2 DEF Plans
    <2>4. plan' = [plan EXCEPT ![b] = q] /\ state' = [state EXCEPT ![b] = "read"]
      BY <1>1, <1>3, <2>1 DEF TypeOK
    <2>5. /\ plan'[b] = q /\ state'[b] = "read" /\ There' = There /\ Lives'
          /\ \A c \in Builders \ {b} : plan'[c] = plan[c]
      BY <1>1, <1>3, <2>4 DEF TypeOK, There, Lives, Held
    <2>6. PlanFits(b)'
      BY <1>1, <2>3, <2>5 DEF Steps, PlanFits, Fits
    <2>7. ASSUME Sound' PROVE BuildFits(b)'
      <3>1. Sound
        BY <1>1, <1>3, <2>7 DEF Sound
      <3>2. BuildFits(b)
        BY <3>1 DEF IInv, Demo
      <3> QED
        BY <1>1, <2>3, <2>5, <3>2 DEF BuildFits
    <2>8. "read" \in States
      BY DEF States
    <2>9. amiss \subseteq amiss' /\ amiss' \subseteq Amiss
      BY <1>1 DEF TypeOK, Amiss
    <2> QED
      BY <1>1, <2>3, <2>4, <2>6, <2>7, <2>8, <2>9, ProgressKeeps
  <1> QED
    BY <1>2, <1>3 DEF ReadMeta, Lives
\* A build finds no demo, and takes note of others that have.
LEMMA ListDemoKeeps ==
    ASSUME Parameters, IInv, NEW b \in Builders, ListDemo(b)
    PROVE  IInv'
  <1>1. /\ TypeOK /\ Steps /\ state[b] = "read"
        /\ UNCHANGED <<dir, text, meta, expired, creating, pass, pending, guestList, resCache,
                       unread, found, shown, builds>>
    BY DEF ListDemo, IInv, sandbox, cleaning, paging
  <1>2. CASE Answer(b) /\ (\E seen : Listing(seen)) /\ UNCHANGED amiss
    BY <1>1, <1>2, AnswerKeeps DEF Listing
  <1>3. CASE /\ plan' = [plan EXCEPT ![b].listed = TRUE] /\ UNCHANGED state
             /\ Listing({})
             /\ amiss' = amiss \cup Lag({})
                  \cup (IF \E c \in Builders \ {b} : plan[c].listed THEN {"overlap"} ELSE {})
    <2>1. PICK q : q = [plan[b] EXCEPT !.listed = TRUE]
      OBVIOUS
    <2>2. plan[b] \in Plans
      BY <1>1 DEF TypeOK
    <2>3. /\ q \in Plans /\ q.listed
          /\ q.demo = plan[b].demo /\ q.meta = plan[b].meta /\ q.seen = plan[b].seen
      BY <2>1, <2>2 DEF Plans
    <2>4. plan' = [plan EXCEPT ![b] = q] /\ state' = [state EXCEPT ![b] = "read"]
      BY <1>1, <1>3, <2>1 DEF TypeOK
    <2>5. /\ plan'[b] = q /\ state'[b] = "read" /\ There' = There
          /\ Lives' <=> Lives
          /\ \A c \in Builders \ {b} : plan'[c] = plan[c]
      BY <1>1, <2>4 DEF TypeOK, There, Lives, Held
    <2>6. /\ Error \/ UNCHANGED errors
          /\ amiss \subseteq amiss' /\ amiss' \subseteq Amiss
          /\ amiss' = {} => There = {} /\ \A c \in Builders \ {b} : ~ plan[c].listed
      BY <1>1, <1>3 DEF Listing, Lag, TypeOK, Amiss
    <2>7. PlanFits(b)'
      BY <1>1, <2>3, <2>5 DEF Steps, PlanFits, Fits
    <2>8. ASSUME Sound' PROVE BuildFits(b)'
      <3>1. Sound /\ amiss' = {}
        BY <1>1, <2>5, <2>6, <2>8 DEF Sound
      <3>2. BuildFits(b)
        BY <3>1 DEF IInv, Demo
      <3>3. There = {} /\ \A c \in Builders \ {b} : ~ plan[c].listed
        BY <2>6, <3>1
      <3> QED
        BY <1>1, <2>3, <2>5, <3>2, <3>3 DEF BuildFits
    <2>9. "read" \in States
      BY DEF States
    <2> QED
      BY <1>1, <2>3, <2>4, <2>6, <2>7, <2>8, <2>9, ProgressKeeps
  <1> QED
    BY <1>2, <1>3 DEF ListDemo

\* A patch goes on with a sandbox of this life.
LEMMA LoadedKeeps ==
    ASSUME Parameters, IInv, NEW b \in Builders, NEW e \in Metas, Fits(e), Loaded(b, e),
           state[b] \in {"load", "loaded"},
           guestList' \in [set : BOOLEAN, entry : Metas], Fits(guestList.entry)',
           UNCHANGED <<dir, text, meta, expired, creating, pass, pending, resCache,
                       unread, found, shown, builds, errors, amiss>>
    PROVE  IInv'
  <1>1. /\ TypeOK /\ Steps /\ plan[b] \in Plans
        /\ UNCHANGED <<dir, text, meta, expired, creating, pass, pending, resCache,
                       unread, found, shown, builds, errors, amiss>>
    BY DEF IInv, TypeOK
  <1>2. /\ \A files \in pending' :
              files \in [DOMAIN files -> Texts] /\ DOMAIN files \subseteq Kinds
        /\ builds' \in 0..MaxBuilds /\ errors' \in 0..MaxErrors
        /\ amiss \subseteq amiss' /\ amiss' \subseteq Amiss
        /\ pending' # {} => "late" \in amiss'
    BY <1>1 DEF TypeOK, Steps, Amiss
  <1>3. CASE Answer(b)
    <2>1. /\ "idle" \in States /\ NoPlan \in Plans
          /\ state' = [state EXCEPT ![b] = "idle"] /\ plan' = [plan EXCEPT ![b] = NoPlan]
          /\ PlanFits(b)' /\ BuildFits(b)'
      BY <1>1, <1>3, AnswerFacts
    <2> QED
      BY <1>1, <1>2, <2>1, BuilderStep
  <1>4. CASE /\ e # NoMeta /\ ~ Past(e)
             /\ plan' = [plan EXCEPT ![b].meta = e] /\ Goto(b, "check")
    <2>1. e = meta
      BY <1>4 DEF Fits, Past
    <2>2. PICK q : q = [plan[b] EXCEPT !.meta = meta]
      OBVIOUS
    <2>3. /\ q \in Plans /\ q.meta = meta /\ q.demo = Patch /\ ~ q.listed
      BY <1>1, <2>2 DEF Plans, Steps, PlanFits, TypeOK
    <2>4. plan' = [plan EXCEPT ![b] = q] /\ state' = [state EXCEPT ![b] = "check"]
      BY <1>1, <1>4, <2>1, <2>2 DEF Goto, TypeOK
    <2>5. plan'[b] = q /\ state'[b] = "check"
      BY <1>1, <2>4 DEF TypeOK
    <2>6. PlanFits(b)'
      BY <1>1, <2>3, <2>5 DEF PlanFits, Fits
    <2>7. BuildFits(b)'
      BY <1>1, <2>3, <2>5 DEF BuildFits
    <2>8. "check" \in States
      BY DEF States
    <2> QED
      BY <1>1, <1>2, <2>3, <2>4, <2>6, <2>7, <2>8, BuilderStep
  <1> QED
    BY <1>3, <1>4 DEF Loaded

\* It finds the sandbox in the cached list.
LEMMA LoadHitKeeps ==
    ASSUME Parameters, IInv, NEW b \in Builders, LoadHit(b)
    PROVE  IInv'
  <1>1. /\ TypeOK /\ Steps /\ state[b] = "load" /\ Loaded(b, guestList.entry)
        /\ UNCHANGED <<dir, text, meta, expired, creating, pass, pending, guestList, resCache,
                       unread, found, shown, builds, errors, amiss>>
    BY DEF LoadHit, IInv, sandbox, cleaning, paging, tallies
  <1>2. /\ guestList.entry \in Metas /\ Fits(guestList.entry)
        /\ guestList' \in [set : BOOLEAN, entry : Metas] /\ Fits(guestList.entry)'
    BY <1>1 DEF TypeOK, Steps, Fits
  <1> QED
    BY <1>1, <1>2, LoadedKeeps

\* Or it reads the list, and what it has read is of this life.
LEMMA LoadReadKeeps ==
    ASSUME Parameters, IInv, NEW b \in Builders, LoadRead(b)
    PROVE  IInv'
  <1>1. /\ TypeOK /\ Steps /\ state[b] = "load" /\ plan[b] \in Plans
        /\ plan' = [plan EXCEPT ![b].meta = Found] /\ Goto(b, "loaded")
        /\ UNCHANGED <<dir, text, meta, expired, creating, pass, pending, guestList, resCache,
                       unread, found, shown, builds, errors, amiss>>
    BY DEF LoadRead, IInv, TypeOK, sandbox, cleaning, paging, tallies
  <1>2. PICK q : q = [plan[b] EXCEPT !.meta = Found]
    OBVIOUS
  <1>3. Found \in Metas /\ Found \in {meta, NoMeta}
    BY <1>1 DEF Found, TypeOK, NoMeta, Metas, Parameters
  <1>4. /\ q \in Plans /\ q.meta = Found /\ q.demo = Patch /\ ~ q.listed
    BY <1>1, <1>2, <1>3 DEF Plans, Steps, PlanFits
  <1>5. plan' = [plan EXCEPT ![b] = q] /\ state' = [state EXCEPT ![b] = "loaded"]
    BY <1>1, <1>2 DEF Goto, TypeOK
  <1>6. plan'[b] = q /\ state'[b] = "loaded"
    BY <1>1, <1>5 DEF TypeOK
  <1>7. PlanFits(b)' /\ BuildFits(b)'
    BY <1>1, <1>3, <1>4, <1>6 DEF PlanFits, BuildFits, Fits
  <1>8. "loaded" \in States /\ amiss \subseteq amiss' /\ amiss' \subseteq Amiss
    BY <1>1 DEF States, TypeOK, Amiss
  <1> QED
    BY <1>1, <1>4, <1>5, <1>7, <1>8, ProgressKeeps

\* It stores what it has read.
LEMMA LoadStoreKeeps ==
    ASSUME Parameters, IInv, NEW b \in Builders, LoadStore(b)
    PROVE  IInv'
  <1>1. /\ TypeOK /\ Steps /\ state[b] = "loaded" /\ Loaded(b, plan[b].meta)
        /\ guestList' = [set |-> TRUE, entry |-> plan[b].meta]
        /\ UNCHANGED <<dir, text, meta, expired, creating, pass, pending, resCache,
                       unread, found, shown, builds, errors, amiss>>
    BY DEF LoadStore, IInv, sandbox, cleaning, paging, tallies
  <1>2. plan[b].meta \in Metas /\ Fits(plan[b].meta)
    BY <1>1 DEF TypeOK, Plans, Steps, PlanFits
  <1>3. guestList' \in [set : BOOLEAN, entry : Metas] /\ Fits(guestList.entry)'
    BY <1>1, <1>2 DEF Fits
  <1> QED
    BY <1>1, <1>2, <1>3, LoadedKeeps
\* It finds the Api there is.
LEMMA CheckApiKeeps ==
    ASSUME Parameters, IInv, NEW b \in Builders, CheckApi(b)
    PROVE  IInv'
  <1>1. /\ TypeOK /\ Steps /\ state[b] = "check" /\ plan[b] \in Plans
        /\ UNCHANGED <<dir, text, meta, expired, creating, pass, pending, guestList, resCache,
                       unread, found, shown, builds, errors, amiss>>
    BY DEF CheckApi, IInv, TypeOK, sandbox, cleaning, paging, tallies
  <1>2. CASE Answer(b)
    BY <1>1, <1>2, AnswerKeeps
  <1>3. CASE "Api" \in dir /\ Goto(b, "list") /\ UNCHANGED plan
    <2>1. plan' = [plan EXCEPT ![b] = plan[b]] /\ state' = [state EXCEPT ![b] = "list"]
      BY <1>1, <1>3 DEF Goto, TypeOK
    <2>2. /\ plan'[b] = plan[b] /\ state'[b] = "list" /\ There' = There
          /\ Lives' <=> Lives
      BY <1>1, <2>1 DEF TypeOK, There, Lives, Held
    <2>3. PlanFits(b)'
      BY <1>1, <2>2 DEF Steps, PlanFits, Fits
    <2>4. ASSUME Sound' PROVE BuildFits(b)'
      <3>1. Sound
        BY <1>1, <2>2, <2>4 DEF Sound
      <3>2. BuildFits(b)
        BY <3>1 DEF IInv, Demo
      <3>3. "Api" \in There /\ ~ plan[b].listed
        BY <1>1, <1>3 DEF There, Kinds, Steps, PlanFits
      <3> QED
        BY <1>1, <2>2, <3>2, <3>3 DEF BuildFits
    <2>5. "list" \in States /\ amiss \subseteq amiss' /\ amiss' \subseteq Amiss
      BY <1>1 DEF States, TypeOK, Amiss
    <2> QED
      BY <1>1, <2>1, <2>3, <2>4, <2>5, ProgressKeeps
  <1> QED
    BY <1>2, <1>3 DEF CheckApi

\* It sees all of the files there are, or takes note that it does not.
LEMMA ListSiblingsKeeps ==
    ASSUME Parameters, IInv, NEW b \in Builders, ListSiblings(b)
    PROVE  IInv'
  <1>1. /\ TypeOK /\ Steps /\ state[b] = "list" /\ plan[b] \in Plans
        /\ UNCHANGED <<dir, text, meta, expired, creating, pass, pending, guestList, resCache,
                       unread, found, shown, builds>>
    BY DEF ListSiblings, IInv, TypeOK, sandbox, cleaning, paging
  <1>2. CASE Answer(b) /\ (\E seen : Listing(seen)) /\ UNCHANGED amiss
    BY <1>1, <1>2, AnswerKeeps DEF Listing
  <1>3. ASSUME NEW seen \in {There, {}}, "WorkflowSpace" \notin seen, Goto(b, "upsert"),
               plan' = [plan EXCEPT ![b].seen = seen], Listing(seen),
               amiss' = amiss \cup Lag(seen)
        PROVE  IInv'
    <2>1. PICK q : q = [plan[b] EXCEPT !.seen = seen]
      OBVIOUS
    <2>2. seen \in SUBSET Kinds
      BY DEF There
    <2>3. /\ q \in Plans /\ q.seen = seen
          /\ q.demo = plan[b].demo /\ q.meta = plan[b].meta /\ q.listed = plan[b].listed
      BY <1>1, <2>1, <2>2 DEF Plans
    <2>4. plan' = [plan EXCEPT ![b] = q] /\ state' = [state EXCEPT ![b] = "upsert"]
      BY <1>1, <1>3, <2>1 DEF TypeOK, Goto
    <2>5. /\ plan'[b] = q /\ state'[b] = "upsert" /\ There' = There
          /\ Lives' <=> Lives
      BY <1>1, <2>4 DEF TypeOK, There, Lives, Held
    <2>6. /\ Error \/ UNCHANGED errors
          /\ amiss \subseteq amiss' /\ amiss' \subseteq Amiss
          /\ amiss' = {} => seen = There
      BY <1>1, <1>3 DEF Listing, Lag, TypeOK, Amiss
    <2>7. PlanFits(b)'
      BY <1>1, <2>3, <2>5 DEF Steps, PlanFits, Fits
    <2>8. ASSUME Sound' PROVE BuildFits(b)'
      <3>1. Sound /\ seen = There
        BY <1>1, <2>5, <2>6, <2>8 DEF Sound
      <3>2. BuildFits(b) /\ ~ plan[b].listed
        BY <1>1, <3>1 DEF IInv, Demo, Steps, PlanFits
      <3> QED
        BY <1>1, <1>3, <2>3, <2>5, <3>1, <3>2 DEF BuildFits
    <2>9. "upsert" \in States
      BY DEF States
    <2> QED
      BY <1>1, <2>3, <2>4, <2>6, <2>7, <2>8, <2>9, ProgressKeeps
  <1> QED
    BY <1>2, <1>3 DEF ListSiblings

\* It fails.
LEMMA RefusedKeeps ==
    ASSUME Parameters, IInv, NEW b \in Builders, Refused(b)
    PROVE  IInv'
  <1>1. /\ Answer(b) /\ Error
        /\ UNCHANGED <<dir, text, meta, expired, creating, pass, pending, guestList, resCache,
                       unread, found, shown, builds, amiss>>
    BY DEF Refused, sandbox, cleaning, paging
  <1> QED
    BY <1>1, AnswerKeeps

\* It commits, and nobody hears of it.
LEMMA CommitLostKeeps ==
    ASSUME Parameters, IInv, NEW b \in Builders, CommitLost(b)
    PROVE  IInv'
  <1>1. PICK files : files = Files(b)
    OBVIOUS
  <1>2. /\ TypeOK /\ Steps /\ Ready(b) /\ Answer(b) /\ Error
        /\ pending' = pending \cup {files} /\ amiss' = amiss \cup {"late"}
        /\ UNCHANGED <<dir, text, meta, expired, creating, pass, guestList, resCache,
                       unread, found, shown, builds>>
    BY <1>1 DEF CommitLost, IInv, sandbox, cleaning, paging
  <1>3. /\ "idle" \in States /\ NoPlan \in Plans
        /\ state' = [state EXCEPT ![b] = "idle"] /\ plan' = [plan EXCEPT ![b] = NoPlan]
        /\ PlanFits(b)' /\ BuildFits(b)'
    BY <1>2, AnswerFacts
  <1>4. files \in [DOMAIN files -> Texts] /\ DOMAIN files \subseteq Kinds
    BY <1>1, <1>2, FilesFacts DEF Steps
  <1>5. /\ \A f \in pending' : f \in [DOMAIN f -> Texts] /\ DOMAIN f \subseteq Kinds
        /\ guestList' \in [set : BOOLEAN, entry : Metas]
        /\ builds' \in 0..MaxBuilds
        /\ amiss \subseteq amiss' /\ amiss' \subseteq Amiss /\ "late" \in amiss'
    BY <1>2, <1>4 DEF TypeOK, Amiss
  <1>6. errors' \in 0..MaxErrors /\ Fits(guestList.entry)'
    BY <1>2, ErrorFacts DEF Steps, Fits
  <1> QED
    BY <1>2, <1>3, <1>5, <1>6, BuilderStep

\* A commit that lands moves nobody's reading of guest.yaml, and no delete pass.
LEMMA LandSteps ==
    ASSUME Parameters, IInv, NEW files, files \in [DOMAIN files -> Texts],
           DOMAIN files \subseteq Kinds, Land(files), \A b \in Builders : PlanFits(b)',
           pending' \subseteq pending,
           UNCHANGED <<creating, pass, guestList, amiss>>
    PROVE  Steps'
  <1>1. /\ TypeOK /\ Steps /\ UNCHANGED <<creating, pass, guestList, amiss>>
    BY DEF IInv
  <1>2. /\ dir' = dir \cup DOMAIN files /\ Held' = Held /\ UNCHANGED <<meta, expired>>
    BY <1>1, LandFacts
  <1>3. PassFits' /\ Fits(guestList.entry)'
    BY <1>1, <1>2 DEF Steps, PassFits, Fits
  <1> QED
    BY <1>1, <1>2, <1>3 DEF Steps
\* A build's demo is all there is when it lands; a patch's Api is that of the demo that
\* is there.
LEMMA CommitKeeps ==
    ASSUME Parameters, IInv, NEW b \in Builders, Commit(b)
    PROVE  IInv'
  <1>1. PICK files : files = Files(b)
    OBVIOUS
  <1>2. /\ TypeOK /\ Steps /\ Ready(b) /\ Land(files) /\ Answer(b) /\ PlanFits(b)
        /\ UNCHANGED <<creating, pass, pending, guestList, resCache, unread, found, shown,
                       builds, errors, amiss>>
    BY <1>1 DEF Commit, IInv, Steps, cleaning, paging, tallies
  <1>3. files \in [DOMAIN files -> Texts] /\ DOMAIN files \subseteq Kinds
    BY <1>1, <1>2, FilesFacts
  <1>4. /\ dir' = dir \cup DOMAIN files /\ dir' \subseteq Kinds \cup Infra
        /\ text' \in [Kinds -> Texts]
        /\ \A k \in DOMAIN files : text'[k] = files[k]
        /\ \A k \in Kinds \ DOMAIN files : text'[k] = text[k]
        /\ There' = There \cup DOMAIN files
        /\ Held' = Held /\ UNCHANGED <<meta, expired>>
    BY <1>2, <1>3, LandFacts
  <1>5. /\ NoPlan \in Plans
        /\ state' = [state EXCEPT ![b] = "idle"] /\ plan' = [plan EXCEPT ![b] = NoPlan]
        /\ PlanFits(b)' /\ BuildFits(b)'
    BY <1>2, AnswerFacts
  <1>6. /\ plan'[b] = NoPlan
        /\ \A c \in Builders \ {b} : state'[c] = state[c] /\ plan'[c] = plan[c]
    BY <1>2, <1>5 DEF TypeOK
  <1>7. TypeOK'
    BY <1>2, <1>4, <1>5 DEF TypeOK
  <1>8. \A c \in Builders : PlanFits(c)'
    BY <1>2, <1>4, <1>5, <1>6 DEF Steps, PlanFits, Fits
  <1>9. Steps'
    BY <1>2, <1>3, <1>8, LandSteps
  <1>10. Lives' <=> Lives
    BY <1>4 DEF Lives
  <1>11. ASSUME Sound' PROVE (Demo /\ Lists)'
    <2>1. Sound /\ Demo /\ Lists /\ BuildFits(b)
      BY <1>2, <1>10, <1>11 DEF Sound, IInv, Demo
    <2>2. ASSUME There' = There, \E d \in Demos : Shows(d)', Lives PROVE (Demo /\ Lists)'
      <3>1. ASSUME NEW c \in Builders \ {b} PROVE BuildFits(c)'
        <4>1. BuildFits(c) /\ ~ plan'[b].listed
          BY <1>6, <2>1 DEF Demo, NoPlan
        <4> QED
          BY <1>4, <1>6, <1>10, <2>2, <4>1 DEF BuildFits
      <3>2. Lists'
        BY <1>2, <2>1, <2>2, ListsStay
      <3> QED
        BY <1>2, <1>5, <1>10, <2>1, <2>2, <3>1, <3>2 DEF Demo
    <2>3. CASE state[b] = "read"
      <3>1. PICK d \in Demos : d = plan[b].demo
        BY <1>1, <1>2, <2>3, FilesFacts
      <3>2. /\ plan[b].listed /\ plan[b].meta # NoMeta /\ DOMAIN files = Plan(d)
            /\ files = Rendered(d, {}, plan[b].meta.slot)
        BY <1>1, <1>2, <2>3, <3>1, FilesFacts
      <3>3. /\ Lives /\ plan[b].meta = meta /\ There = {}
            /\ \A c \in Builders \ {b} : ~ plan[c].listed
        BY <2>1, <2>3, <3>2 DEF BuildFits
      <3>4. There' = Plan(d) /\ \A k \in There' : text'[k] = Rendered(d, {}, meta.slot)[k]
        BY <1>4, <3>2, <3>3
      <3>5. Shows(d)'
        BY <1>4, <3>4 DEF Shows
      <3>6. ASSUME NEW c \in Builders \ {b} PROVE BuildFits(c)'
        <4>1. BuildFits(c) /\ state[c] \notin {"list", "upsert"} /\ ~ plan[c].listed
          BY <2>1, <3>3 DEF Demo, BuildFits
        <4> QED
          BY <1>4, <1>6, <1>10, <4>1 DEF BuildFits
      <3>7. Lists'
        BY <1>2, <2>1, <3>3, ListsStay
      <3> QED
        BY <1>2, <1>5, <1>10, <2>1, <3>3, <3>5, <3>6, <3>7 DEF Demo
    <2>4. CASE state[b] = "upsert"
      <3>1. /\ plan[b].meta = meta /\ plan[b].seen = There
            /\ "Api" \in There /\ "WorkflowSpace" \notin There
        BY <2>1, <2>4 DEF BuildFits
      <3>2. /\ DOMAIN files = {"Api"}
            /\ files["Api"] = Params("Api", meta.slot, There, FALSE)
        BY <1>1, <1>2, <2>4, <3>1, FilesFacts
      <3>3. PICK d \in Demos : Shows(d) /\ Lives
        BY <2>1, <3>1 DEF Demo
      <3>4. There = Plan(d) /\ d.kind # "WorkflowSpace"
        BY <3>1, <3>3, DemoFacts DEF Shows
      <3>5. Rendered(d, {}, meta.slot)["Api"] = Params("Api", meta.slot, There, FALSE)
        <4>1. {} \cup Plan(d) = There /\ (d.kind = "WorkflowSpace") = FALSE
          BY <3>4
        <4> QED
          BY <3>1, <3>4, <4>1 DEF Rendered
      <3>6. There' = There
        BY <1>4, <3>1, <3>2
      <3>7. ASSUME NEW k \in There PROVE text'[k] = Rendered(d, {}, meta.slot)[k]
        <4>1. CASE k = "Api"
          BY <1>4, <3>2, <3>5, <4>1
        <4>2. CASE k # "Api"
          <5>1. k \in Kinds \ DOMAIN files /\ text[k] = Rendered(d, {}, meta.slot)[k]
            BY <3>2, <3>3, <4>2 DEF Shows, There
          <5> QED
            BY <1>4, <5>1
        <4> QED
          BY <4>1, <4>2
      <3>8. Shows(d)'
        BY <1>4, <3>4, <3>6, <3>7 DEF Shows
      <3> QED
        BY <2>2, <3>3, <3>6, <3>8
    <2> QED
      BY <1>2, <2>3, <2>4 DEF Ready
  <1>12. Unasked'
    BY <1>2 DEF IInv, Unasked
  <1> QED
    BY <1>7, <1>9, <1>11, <1>12 DEF IInv

\* One that lands late is among the exceptions.
LEMMA CommitLateKeeps ==
    ASSUME Parameters, IInv, NEW files \in pending, CommitLate(files)
    PROVE  IInv'
  <1>1. /\ TypeOK /\ Steps /\ Land(files) /\ pending' = pending \ {files}
        /\ files \in [DOMAIN files -> Texts] /\ DOMAIN files \subseteq Kinds
        /\ UNCHANGED <<creating, pass, state, plan, guestList, resCache, unread, found, shown,
                       builds, errors, amiss>>
    BY DEF CommitLate, IInv, TypeOK, cleaning, paging, tallies
  <1>2. /\ dir' \subseteq Kinds \cup Infra /\ text' \in [Kinds -> Texts]
        /\ UNCHANGED <<meta, expired>>
    BY <1>1, LandFacts
  <1>3. TypeOK'
    BY <1>1, <1>2 DEF TypeOK
  <1>4. \A b \in Builders : PlanFits(b)'
    BY <1>1, <1>2 DEF Steps, PlanFits, Fits
  <1>5. Steps'
    BY <1>1, <1>4, LandSteps
  <1>6. ~ Sound'
    BY <1>1 DEF Steps, Sound
  <1>7. Unasked'
    BY <1>1 DEF IInv, Unasked
  <1> QED
    BY <1>3, <1>5, <1>6, <1>7 DEF IInv

------------------------------------------------------------------------------
\* A page, or a cache, that moves: what it has found is enough.
LEMMA ReaderStep ==
    ASSUME IInv,
           UNCHANGED <<dir, text, meta, expired, creating, pass, state, plan, pending, guestList,
                       builds, amiss>>,
           errors' \in 0..MaxErrors,
           resCache' \in [set : BOOLEAN, kinds : SUBSET Kinds],
           unread' \in [Pages -> (SUBSET Kinds) \cup {Idle}],
           found' \in [Pages -> [kinds : SUBSET Kinds, failed : BOOLEAN]],
           shown' \in [Pages -> SUBSET Kinds],
           Unasked', Sound /\ Lists => Lists'
    PROVE  IInv'
  <1>1. UNCHANGED <<dir, text, meta, expired, creating, pass, state, plan, pending, guestList,
                    builds, amiss>>
    OBVIOUS
  <1>2. TypeOK'
    BY <1>1 DEF IInv, TypeOK
  <1>3. Steps'
    BY <1>1, StepsStay DEF IInv
  <1>4. (Sound' => Sound) /\ (Demo => Demo')
    BY <1>1, DemoStays DEF Sound
  <1> QED
    BY <1>2, <1>3, <1>4 DEF IInv

\* A page is answered out of the cache.
LEMMA PageHitKeeps ==
    ASSUME IInv, NEW p \in Pages, PageHit(p)
    PROVE  IInv'
  <1>1. /\ TypeOK /\ shown' = [shown EXCEPT ![p] = resCache.kinds]
        /\ UNCHANGED <<dir, text, meta, expired, creating, pass, state, plan, pending, guestList,
                       resCache, unread, found, builds, errors, amiss>>
    BY DEF PageHit, IInv, sandbox, cleaning, building, tallies
  <1>2. There' = There
    BY <1>1 DEF There
  <1>3. Lists => Lists'
    BY <1>1, <1>2, ListsStay
  <1>4. Unasked'
    BY <1>1 DEF IInv, Unasked
  <1> QED
    BY <1>1, <1>3, <1>4, ReaderStep DEF TypeOK

\* A page starts with all there is or, where the listing lags, with nothing.
LEMMA PageListKeeps ==
    ASSUME Parameters, IInv, NEW p \in Pages, PageList(p)
    PROVE  IInv'
  <1>1. PICK seen \in {There, {}} : Listing(seen) /\ unread' = [unread EXCEPT ![p] = seen]
    BY DEF PageList
  <1>2. /\ TypeOK /\ Steps /\ unread[p] = Idle
        /\ UNCHANGED <<dir, text, meta, expired, creating, pass, state, plan, pending, guestList,
                       resCache, found, shown, builds, amiss>>
    BY DEF PageList, IInv, sandbox, cleaning, building
  <1>3. There' = There /\ seen \in SUBSET Kinds
    BY <1>2 DEF There
  <1>4. errors' \in 0..MaxErrors
    BY <1>1, <1>2, ErrorFacts DEF Listing
  <1>5. unread' \in [Pages -> (SUBSET Kinds) \cup {Idle}]
    BY <1>1, <1>2, <1>3 DEF TypeOK
  <1>6. ASSUME Lists, NEW q \in Pages PROVE PageFits(q)'
    <2>1. CASE q = p
      <3>1. unread'[p] = seen
        BY <1>1, <1>2 DEF TypeOK
      <3>2. found'[p].kinds = {}
        BY <1>2 DEF IInv, Unasked, NotFound
      <3> QED
        BY <1>3, <2>1, <3>1, <3>2 DEF PageFits
    <2>2. CASE q # p
      BY <1>1, <1>2, <1>3, <1>6, <2>2 DEF Lists, PageFits, TypeOK
    <2> QED
      BY <2>1, <2>2
  <1>7. Lists => Lists'
    BY <1>2, <1>3, <1>6 DEF Lists
  <1>8. Unasked'
    BY <1>1, <1>2 DEF IInv, Unasked, TypeOK
  <1> QED
    BY <1>2, <1>4, <1>5, <1>7, <1>8, ReaderStep DEF TypeOK

\* It exchanges a listed kind for its file, or fails.
LEMMA PageFetchKeeps ==
    ASSUME Parameters, IInv, NEW p \in Pages, NEW k \in Kinds, PageFetch(p, k)
    PROVE  IInv'
  <1>1. /\ TypeOK /\ unread[p] # Idle /\ k \in unread[p]
        /\ unread' = [unread EXCEPT ![p] = @ \ {k}]
        /\ Error \/ UNCHANGED errors
        /\ UNCHANGED <<dir, text, meta, expired, creating, pass, state, plan, pending, guestList,
                       resCache, shown, builds, amiss>>
    BY DEF PageFetch, IInv, sandbox, cleaning, building
  <1>2. \/ k \in dir /\ found' = [found EXCEPT ![p].kinds = @ \cup {k}]
        \/ found' = [found EXCEPT ![p].failed = TRUE]
    BY DEF PageFetch
  <1>3. found[p] \in [kinds : SUBSET Kinds, failed : BOOLEAN] /\ unread[p] \in SUBSET Kinds
    BY <1>1 DEF TypeOK
  <1>4. PICK n \in [kinds : SUBSET Kinds, failed : BOOLEAN] :
           /\ found' = [found EXCEPT ![p] = n]
           /\ n.failed \/ (n.kinds = found[p].kinds \cup {k} /\ n.failed = found[p].failed)
    <2>1. CASE k \in dir /\ found' = [found EXCEPT ![p].kinds = @ \cup {k}]
      <3>1. PICK n : n = [found[p] EXCEPT !.kinds = @ \cup {k}]
        OBVIOUS
      <3>2. /\ n \in [kinds : SUBSET Kinds, failed : BOOLEAN]
            /\ n.kinds = found[p].kinds \cup {k} /\ n.failed = found[p].failed
        BY <1>3, <3>1
      <3>3. found' = [found EXCEPT ![p] = n]
        BY <2>1, <3>1
      <3> QED
        BY <3>2, <3>3
    <2>2. CASE found' = [found EXCEPT ![p].failed = TRUE]
      <3>1. PICK n : n = [found[p] EXCEPT !.failed = TRUE]
        OBVIOUS
      <3>2. n \in [kinds : SUBSET Kinds, failed : BOOLEAN] /\ n.failed
        BY <1>3, <3>1
      <3>3. found' = [found EXCEPT ![p] = n]
        BY <2>2, <3>1
      <3> QED
        BY <3>2, <3>3
    <2> QED
      BY <1>2, <2>1, <2>2
  <1>5. /\ unread'[p] = unread[p] \ {k} /\ found'[p] = n
        /\ \A q \in Pages \ {p} : unread'[q] = unread[q] /\ found'[q] = found[q]
    BY <1>1, <1>4 DEF TypeOK
  <1>6. /\ unread' \in [Pages -> (SUBSET Kinds) \cup {Idle}]
        /\ found' \in [Pages -> [kinds : SUBSET Kinds, failed : BOOLEAN]]
    BY <1>1, <1>3, <1>4 DEF TypeOK
  <1>7. There' = There
    BY <1>1 DEF There
  <1>8. ASSUME Lists, NEW q \in Pages PROVE PageFits(q)'
    <2>1. CASE q = p
      <3>1. found[p].failed \/ unread[p] \cup found[p].kinds \in {{}, There}
        BY <1>1, <1>8 DEF Lists, PageFits
      <3>2. n.failed \/ unread'[p] \cup n.kinds = unread[p] \cup found[p].kinds
        BY <1>1, <1>4, <1>5
      <3> QED
        BY <1>4, <1>5, <1>7, <2>1, <3>1, <3>2 DEF PageFits
    <2>2. CASE q # p
      BY <1>5, <1>7, <1>8, <2>2 DEF Lists, PageFits
    <2> QED
      BY <2>1, <2>2
  <1>9. Lists => Lists'
    BY <1>1, <1>7, <1>8 DEF Lists
  <1>10. Unasked'
    <2>1. unread'[p] # Idle
      <3>1. "idle" \notin Kinds
        BY DEF Kinds, Siblings
      <3> QED
        BY <1>3, <1>5, <3>1 DEF Idle
    <2> QED
      BY <1>5, <2>1 DEF IInv, Unasked
  <1>11. errors' \in 0..MaxErrors
    BY <1>1, ErrorFacts
  <1> QED
    BY <1>1, <1>6, <1>9, <1>10, <1>11, ReaderStep DEF TypeOK

\* It stores what it has found, all of it or none.
LEMMA PageStoreKeeps ==
    ASSUME IInv, NEW p \in Pages, PageStore(p)
    PROVE  IInv'
  <1>1. /\ TypeOK /\ unread[p] = {} /\ unread[p] # Idle
        /\ unread' = [unread EXCEPT ![p] = Idle] /\ found' = [found EXCEPT ![p] = NotFound]
        /\ UNCHANGED <<dir, text, meta, expired, creating, pass, state, plan, pending, guestList,
                       builds, errors, amiss>>
    BY DEF PageStore, Done, IInv, sandbox, cleaning, building, tallies, Idle
  <1>2. \/ UNCHANGED <<resCache, shown>>
        \/ /\ ~ found[p].failed
           /\ resCache' = [set |-> TRUE, kinds |-> found[p].kinds]
           /\ shown' = [shown EXCEPT ![p] = found[p].kinds]
    BY DEF PageStore
  <1>3. found[p].kinds \in SUBSET Kinds
    BY <1>1 DEF TypeOK
  <1>4. /\ unread' \in [Pages -> (SUBSET Kinds) \cup {Idle}]
        /\ found' \in [Pages -> [kinds : SUBSET Kinds, failed : BOOLEAN]]
    BY <1>1 DEF TypeOK, NotFound
  <1>5. /\ resCache' \in [set : BOOLEAN, kinds : SUBSET Kinds]
        /\ shown' \in [Pages -> SUBSET Kinds]
    <2>1. CASE UNCHANGED <<resCache, shown>>
      BY <1>1, <2>1 DEF TypeOK
    <2>2. CASE /\ resCache' = [set |-> TRUE, kinds |-> found[p].kinds]
               /\ shown' = [shown EXCEPT ![p] = found[p].kinds]
      BY <1>1, <1>3, <2>2 DEF TypeOK
    <2> QED
      BY <1>2, <2>1, <2>2
  <1>6. There' = There
    BY <1>1 DEF There
  <1>7. /\ unread'[p] = Idle /\ found'[p] = NotFound
        /\ \A q \in Pages \ {p} : unread'[q] = unread[q] /\ found'[q] = found[q]
    BY <1>1 DEF TypeOK
  <1>8. ASSUME Lists PROVE Lists'
    <2>1. \A q \in Pages : PageFits(q)'
      BY <1>6, <1>7, <1>8 DEF Lists, PageFits
    <2>2. ~ found[p].failed => found[p].kinds \in {{}, There}
      BY <1>1, <1>8 DEF Lists, PageFits
    <2>3. resCache'.set => resCache'.kinds \in {{}, There}
      BY <1>2, <1>8, <2>2 DEF Lists
    <2> QED
      BY <1>6, <2>1, <2>3 DEF Lists
  <1>9. Unasked'
    BY <1>7 DEF IInv, Unasked
  <1>10. errors' \in 0..MaxErrors
    BY <1>1 DEF TypeOK
  <1> QED
    BY <1>1, <1>4, <1>5, <1>8, <1>9, <1>10, ReaderStep

\* An empty cache says nothing.
LEMMA CacheExpiresKeeps ==
    ASSUME IInv, CacheExpires
    PROVE  IInv'
  <1>1. /\ TypeOK /\ resCache' = NoCache
        /\ UNCHANGED <<dir, text, meta, expired, creating, pass, state, plan, pending, guestList,
                       unread, found, shown, builds, errors, amiss>>
    BY DEF CacheExpires, IInv, sandbox, cleaning, building, paging, tallies
  <1>2. /\ resCache' \in [set : BOOLEAN, kinds : SUBSET Kinds] /\ ~ resCache'.set
        /\ There' = There
    BY <1>1 DEF NoCache, There
  <1>3. Lists => Lists'
    BY <1>1, <1>2 DEF Lists, PageFits
  <1>4. Unasked'
    BY <1>1 DEF IInv, Unasked
  <1>5. /\ unread' \in [Pages -> (SUBSET Kinds) \cup {Idle}]
        /\ found' \in [Pages -> [kinds : SUBSET Kinds, failed : BOOLEAN]]
        /\ shown' \in [Pages -> SUBSET Kinds] /\ errors' \in 0..MaxErrors
    BY <1>1 DEF TypeOK
  <1> QED
    BY <1>1, <1>2, <1>3, <1>4, <1>5, ReaderStep

\* An empty list of sandboxes says nothing either.
LEMMA ListExpiresKeeps ==
    ASSUME Parameters, IInv, ListExpires
    PROVE  IInv'
  <1>1. /\ TypeOK /\ Steps /\ guestList' = NoList
        /\ UNCHANGED <<dir, text, meta, expired, creating, pass, state, plan, pending, resCache,
                       unread, found, shown, builds, errors, amiss>>
    BY DEF ListExpires, IInv, sandbox, cleaning, building, paging, tallies
  <1>2. NoList \in [set : BOOLEAN, entry : Metas] /\ NoList.entry = NoMeta
    BY DEF NoList, NoMeta, Metas, Parameters
  <1>3. TypeOK'
    BY <1>1, <1>2 DEF TypeOK
  <1>4. Steps'
    BY <1>1, <1>2 DEF Steps, PlanFits, Fits, PassFits, Held
  <1>5. (Sound' => Sound) /\ (Demo => Demo') /\ (Lists => Lists')
    BY <1>1, DemoStays, ListsStay DEF Sound
  <1>6. Unasked'
    BY <1>1 DEF IInv, Unasked
  <1> QED
    BY <1>3, <1>4, <1>5, <1>6 DEF IInv
------------------------------------------------------------------------------
\* Who is idle counts on nothing.
LEMMA IdleFits ==
    ASSUME NEW b \in Builders, state[b] = "idle", plan[b] = NoPlan
    PROVE  PlanFits(b) /\ BuildFits(b)
  <1>1. NoPlan.meta = NoMeta /\ ~ NoPlan.listed
    BY DEF NoPlan
  <1> QED
    BY <1>1 DEF PlanFits, BuildFits, Fits

\* When a create finds nothing of the name's last life, nobody counts on that life.
LEMMA NothingRemains ==
    ASSUME Steps, Remains = {}
    PROVE  /\ There = {}
           /\ \A b \in Builders : state[b] = "idle" /\ plan[b] = NoPlan
           /\ \A p \in Pages : unread[p] = Idle
  <1>1. ~ Busy /\ There = {}
    BY DEF Remains
  <1> QED
    BY <1>1 DEF Busy, Steps, PlanFits

\* What a create finds of the last life is among what goes wrong.
LEMMA RemainsFacts ==
    Remains \subseteq Amiss
  BY DEF Remains, Amiss

\* A create seeds the cache with nothing, which is what there is.
LEMMA CreateSeedsKeeps ==
    ASSUME IInv, CreateSeeds
    PROVE  IInv'
  <1>1. /\ TypeOK /\ Steps /\ creating' = "seeded" /\ ~ Held /\ meta.life < MaxLives
        /\ resCache' = [set |-> TRUE, kinds |-> {}] /\ amiss' = amiss \cup Remains
        /\ UNCHANGED <<dir, text, meta, expired, pass, state, plan, pending, guestList,
                       unread, found, shown, builds, errors>>
    BY DEF CreateSeeds, IInv, sandbox, building, paging, tallies
  <1>2. TypeOK'
    BY <1>1, RemainsFacts DEF TypeOK, Amiss
  <1>3. /\ There' = There /\ ~ Held'
        /\ \A b \in Builders : PlanFits(b)' <=> PlanFits(b)
    BY <1>1 DEF There, Held, PlanFits, Fits
  <1>4. PassFits' /\ Fits(guestList.entry)'
    BY <1>1 DEF Steps, PassFits, Fits
  <1>5. Steps'
    BY <1>1, <1>3, <1>4 DEF Steps
  <1>6. ASSUME Sound' PROVE (Demo /\ Lists)'
    <2>1. Remains = {}
      BY <1>1, <1>6 DEF Sound
    <2>2. /\ There = {}
          /\ \A b \in Builders : state[b] = "idle" /\ plan[b] = NoPlan
          /\ \A p \in Pages : unread[p] = Idle
      BY <1>1, <2>1, NothingRemains
    <2>3. \A b \in Builders : BuildFits(b)
      BY <2>2, IdleFits
    <2>4. ~ Lives /\ ~ Lives'
      BY <1>1, <1>3 DEF Lives
    <2>5. \A b \in Builders : BuildFits(b)'
      BY <1>1, <1>3, <2>3, <2>4 DEF BuildFits
    <2>6. pass = NoPass \/ pass \subseteq {"namespace"}
      <3>1. pass # NoPass => pass \subseteq dir
        BY <1>1 DEF Steps, PassFits
      <3>2. dir \subseteq {"namespace"}
        BY <1>1, <2>2 DEF TypeOK, There, Held, Infra
      <3> QED
        BY <3>1, <3>2
    <2>7. Demo'
      BY <1>1, <1>3, <2>2, <2>5, <2>6 DEF Demo
    <2>8. Lists'
      BY <1>1, <2>2 DEF Lists, PageFits
    <2> QED
      BY <2>7, <2>8
  <1>7. Unasked'
    BY <1>1 DEF IInv, Unasked
  <1> QED
    BY <1>2, <1>5, <1>6, <1>7 DEF IInv

\* It lands: the next life begins, and everybody's reads are of an earlier one.
LEMMA CreateLandsKeeps ==
    ASSUME Parameters, IInv, CreateLands
    PROVE  IInv'
  <1>1. /\ TypeOK /\ Steps /\ creating = "seeded" /\ creating' = "landed"
        /\ dir' = dir \cup Infra /\ expired' = FALSE /\ amiss' = amiss \cup Remains
        /\ UNCHANGED <<text, pass, state, plan, pending, guestList, resCache, unread, found,
                       shown, builds, errors>>
    BY DEF CreateLands, IInv, building, paging, tallies
  <1>2. PICK s \in Slots : meta' = [life |-> meta.life + 1, slot |-> s]
    BY DEF CreateLands
  <1>3. ~ Held /\ meta.life < MaxLives /\ meta \in Metas /\ MaxLives \in Nat
    BY <1>1 DEF Steps, TypeOK, Parameters
  <1>4. meta.life \in 0..MaxLives /\ meta'.life = meta.life + 1
    BY <1>2, <1>3 DEF Metas
  <1>5. meta' \in Metas
    <2>1. meta.life + 1 \in 0..MaxLives
      BY <1>3, <1>4
    <2> QED
      BY <1>2, <2>1 DEF Metas
  <1>6. TypeOK'
    BY <1>1, <1>5, RemainsFacts DEF TypeOK, Amiss, Infra
  <1>7. ASSUME NEW e \in Metas, Fits(e)
        PROVE  e = NoMeta \/ e.life < meta'.life
    <2>1. CASE e = NoMeta
      BY <2>1
    <2>2. CASE e = meta
      BY <1>4, <2>2
    <2>3. CASE e.life < meta.life
      <3>1. e.life \in Int
        BY DEF Metas
      <3> QED
        BY <1>4, <2>3, <3>1
    <2> QED
      BY <1>7, <2>1, <2>2, <2>3 DEF Fits
  <1>8. ASSUME NEW b \in Builders PROVE PlanFits(b)'
    <2>1. PlanFits(b) /\ plan[b] \in Plans
      BY <1>1 DEF Steps, TypeOK
    <2>2. plan[b].meta = NoMeta \/ plan[b].meta.life < meta'.life
      BY <1>7, <2>1 DEF PlanFits, Plans
    <2> QED
      BY <1>1, <2>1, <2>2 DEF PlanFits, Fits
  <1>9. Fits(guestList.entry)'
    <2>1. guestList.entry = NoMeta \/ guestList.entry.life < meta'.life
      BY <1>1, <1>7 DEF Steps, TypeOK
    <2> QED
      BY <1>1, <2>1 DEF Fits
  <1>10. PassFits'
    BY <1>1, <1>3 DEF Steps, PassFits, Held
  <1>11. Steps'
    <2>1. pending' # {} => "late" \in amiss'
      BY <1>1 DEF Steps
    <2> QED
      BY <1>1, <1>8, <1>9, <1>10, <2>1 DEF Steps
  <1>12. ASSUME Sound' PROVE (Demo /\ Lists)'
    <2>1. Remains = {} /\ Sound
      BY <1>1, <1>12 DEF Sound
    <2>2. Demo /\ Lists
      BY <2>1 DEF IInv
    <2>3. /\ There = {}
          /\ \A b \in Builders : state[b] = "idle" /\ plan[b] = NoPlan
          /\ \A p \in Pages : unread[p] = Idle
      BY <1>1, <2>1, NothingRemains
    <2>4. There' = {}
      <3>1. Infra \cap Kinds = {}
        BY DEF Infra, Kinds, Siblings
      <3> QED
        BY <1>1, <2>3, <3>1 DEF There
    <2>5. ASSUME NEW b \in Builders PROVE BuildFits(b)'
      <3>1. state'[b] = "idle" /\ plan'[b].listed = FALSE
        BY <1>1, <2>3 DEF NoPlan
      <3> QED
        BY <3>1 DEF BuildFits
    <2>6. Demo'
      BY <1>1, <2>2, <2>4, <2>5 DEF Demo
    <2>7. Lists'
      BY <1>1, <2>2, <2>3, <2>4 DEF Lists, PageFits
    <2> QED
      BY <2>6, <2>7
  <1>13. Unasked'
    BY <1>1 DEF IInv, Unasked
  <1> QED
    BY <1>6, <1>11, <1>12, <1>13 DEF IInv

\* Or it fails, and there is no sandbox.
LEMMA CreateFailsKeeps ==
    ASSUME Parameters, IInv, CreateFails
    PROVE  IInv'
  <1>1. /\ TypeOK /\ Steps /\ creating = "seeded" /\ creating' = "no" /\ Error
        /\ UNCHANGED <<dir, text, meta, expired, pass, state, plan, pending, guestList, resCache,
                       unread, found, shown, builds, amiss>>
    BY DEF CreateFails, IInv, sandbox, building, paging
  <1>2. TypeOK'
    BY <1>1, ErrorFacts DEF TypeOK
  <1>3. Steps'
    BY <1>1 DEF Steps, PlanFits, Fits, PassFits
  <1>4. ~ Sound'
    BY <1>1 DEF Steps, Sound, Lives, Held
  <1>5. Unasked'
    BY <1>1 DEF IInv, Unasked
  <1> QED
    BY <1>2, <1>3, <1>4, <1>5 DEF IInv

\* It returns, and seeds the list of sandboxes with this one.
LEMMA CreateReturnsKeeps ==
    ASSUME Parameters, IInv, CreateReturns
    PROVE  IInv'
  <1>1. /\ TypeOK /\ Steps /\ creating' = "no"
        /\ guestList' = [set |-> TRUE, entry |-> Found]
        /\ UNCHANGED <<dir, text, meta, expired, pass, state, plan, pending, resCache, unread,
                       found, shown, builds, errors, amiss>>
    BY DEF CreateReturns, IInv, sandbox, building, paging, tallies
  <1>2. Found \in Metas /\ (Found = NoMeta \/ Found = meta)
    BY <1>1 DEF Found, NoMeta, Metas, Parameters, TypeOK
  <1>3. TypeOK'
    BY <1>1, <1>2 DEF TypeOK
  <1>4. Steps'
    BY <1>1, <1>2 DEF Steps, PlanFits, Fits, PassFits, Held
  <1>5. (Sound' => Sound) /\ (Demo => Demo') /\ (Lists => Lists')
    BY <1>1, DemoStays, ListsStay DEF Sound
  <1>6. Unasked'
    BY <1>1 DEF IInv, Unasked
  <1> QED
    BY <1>3, <1>4, <1>5, <1>6 DEF IInv
------------------------------------------------------------------------------
\* An expired sandbox is no live one.
LEMMA ExpireKeeps ==
    ASSUME IInv, Expire
    PROVE  IInv'
  <1>1. /\ TypeOK /\ Steps /\ Held /\ expired' = TRUE
        /\ UNCHANGED <<dir, text, meta, creating, pass, state, plan, pending, guestList, resCache,
                       unread, found, shown, builds, errors, amiss>>
    BY DEF Expire, IInv, cleaning, building, paging, tallies
  <1>2. TypeOK'
    BY <1>1 DEF TypeOK
  <1>3. Steps'
    BY <1>1 DEF Steps, PlanFits, Fits, PassFits, Held
  <1>4. ~ Sound'
    BY <1>1 DEF Steps, Sound, Lives
  <1>5. Unasked'
    BY <1>1 DEF IInv, Unasked
  <1> QED
    BY <1>2, <1>3, <1>4, <1>5 DEF IInv

\* A pass starts on a sandbox that does not live; where a create is under way, all there
\* can be is a namespace.yaml.
LEMMA PassListsKeeps ==
    ASSUME IInv, PassLists
    PROVE  IInv'
  <1>1. /\ TypeOK /\ Steps /\ (expired \/ ~ Held) /\ pass' = dir
        /\ UNCHANGED <<dir, text, meta, expired, creating, state, plan, pending, guestList,
                       resCache, unread, found, shown, builds, errors, amiss>>
    BY DEF PassLists, IInv, sandbox, building, paging, tallies
  <1>2. TypeOK'
    BY <1>1 DEF TypeOK
  <1>3. PassFits'
    BY <1>1 DEF PassFits, Held
  <1>4. Steps'
    BY <1>1, <1>3 DEF Steps, PlanFits, Fits, Held
  <1>5. ASSUME Sound' PROVE (Demo /\ Lists)'
    <2>1. ~ Lives /\ ~ Lives' /\ There' = There
      BY <1>1 DEF Lives, Held, There
    <2>2. Sound /\ Demo /\ Lists
      BY <1>1, <1>5, <2>1 DEF Sound, IInv
    <2>3. There = {} /\ ~ Held
      BY <1>1, <2>1, <2>2 DEF Demo, Sound, Steps
    <2>4. pass' \subseteq {"namespace"}
      BY <1>1, <2>3 DEF TypeOK, There, Held, Infra
    <2>5. \A b \in Builders : BuildFits(b)'
      BY <1>1, <2>1, <2>2 DEF Demo, BuildFits
    <2>6. Demo'
      BY <2>1, <2>3, <2>4, <2>5 DEF Demo
    <2>7. Lists'
      BY <1>1, <2>1, <2>2, ListsStay
    <2> QED
      BY <2>6, <2>7
  <1>6. Unasked'
    BY <1>1 DEF IInv, Unasked
  <1> QED
    BY <1>2, <1>4, <1>5, <1>6 DEF IInv

\* Of a live sandbox a pass that is still at it takes no file of the demo.
LEMMA PassDeletesKeeps ==
    ASSUME Parameters, IInv, NEW f \in Kinds \cup Infra, PassDeletes(f)
    PROVE  IInv'
  <1>1. /\ TypeOK /\ Steps /\ pass # NoPass /\ f \in pass /\ pass' = pass \ {f}
        /\ dir' = dir \ {f} \/ UNCHANGED dir
        /\ (text' = [text EXCEPT ![f] = Blank] /\ f \in Kinds) \/ UNCHANGED text
        /\ Error \/ UNCHANGED errors
        /\ UNCHANGED <<meta, expired, creating, state, plan, pending, guestList, resCache, unread,
                       found, shown, builds, amiss>>
    BY DEF PassDeletes, IInv, building, paging
  <1>2. "no pass" \notin Kinds \cup Infra /\ "namespace" \notin Kinds /\ "guest" \notin Kinds
    BY DEF Kinds, Siblings, Infra
  <1>3. pass \in SUBSET (Kinds \cup Infra) /\ pass \subseteq dir /\ ("guest" \in pass => expired)
    BY <1>1 DEF Steps, PassFits, TypeOK
  <1>4. TypeOK'
    <2>1. Blank \in Texts
      BY DEF Blank, Texts
    <2>2. text' \in [Kinds -> Texts]
      BY <1>1, <2>1 DEF TypeOK
    <2>3. dir' \subseteq Kinds \cup Infra /\ pass' \in SUBSET (Kinds \cup Infra)
      BY <1>1, <1>3 DEF TypeOK
    <2>4. errors' \in 0..MaxErrors
      BY <1>1, ErrorFacts
    <2> QED
      BY <1>1, <2>2, <2>3, <2>4 DEF TypeOK
  <1>5. PassFits'
    <2>1. pass' \subseteq dir'
      BY <1>1, <1>3
    <2>2. "guest" \in pass' => expired'
      BY <1>1, <1>3
    <2> QED
      BY <2>1, <2>2 DEF PassFits
  <1>6. Held' => Held
    BY <1>1 DEF Held
  <1>7. Steps'
    BY <1>1, <1>5, <1>6 DEF Steps, PlanFits, Fits
  <1>8. ASSUME Sound' PROVE (Demo /\ Lists)'
    <2>1. Sound /\ Demo /\ Lists
      BY <1>1, <1>6, <1>8 DEF Sound, Lives, IInv
    <2>2. f = "namespace" /\ pass' \subseteq {"namespace"}
      BY <1>1, <2>1 DEF Demo
    <2>3. UNCHANGED text
      BY <1>1, <1>2, <2>2
    <2>4. There' = There /\ (Held' <=> Held)
      BY <1>1, <1>2, <2>2 DEF There, Held
    <2>5. Lives' <=> Lives
      BY <1>1, <2>4 DEF Lives
    <2>6. \A b \in Builders : BuildFits(b)'
      BY <1>1, <2>1, <2>4, <2>5 DEF Demo, BuildFits
    <2>7. \A d : Shows(d)' <=> Shows(d)
      BY <1>1, <2>3, <2>4 DEF Shows
    <2>8. Demo'
      BY <2>1, <2>2, <2>4, <2>5, <2>6, <2>7 DEF Demo
    <2>9. Lists'
      BY <1>1, <2>1, <2>4, ListsStay
    <2> QED
      BY <2>8, <2>9
  <1>9. Unasked'
    BY <1>1 DEF IInv, Unasked
  <1> QED
    BY <1>4, <1>7, <1>8, <1>9 DEF IInv

\* A pass that ends leaves an empty list of sandboxes.
LEMMA PassEndsKeeps ==
    ASSUME Parameters, IInv, PassEnds
    PROVE  IInv'
  <1>1. /\ TypeOK /\ Steps /\ pass' = NoPass /\ guestList' = NoList
        /\ UNCHANGED <<dir, text, meta, expired, creating, state, plan, pending, resCache, unread,
                       found, shown, builds, errors, amiss>>
    BY DEF PassEnds, IInv, sandbox, building, paging, tallies
  <1>2. NoList \in [set : BOOLEAN, entry : Metas] /\ NoList.entry = NoMeta
    BY DEF NoList, NoMeta, Metas, Parameters
  <1>3. TypeOK'
    BY <1>1, <1>2 DEF TypeOK
  <1>4. Steps'
    BY <1>1, <1>2 DEF Steps, PlanFits, Fits, PassFits, Held
  <1>5. ASSUME Sound' PROVE (Demo /\ Lists)'
    <2>1. There' = There /\ (Lives' <=> Lives)
      BY <1>1 DEF There, Lives, Held
    <2>2. Sound /\ Demo /\ Lists
      BY <1>1, <1>5, <2>1 DEF Sound, IInv
    <2>3. \A b \in Builders : BuildFits(b)'
      BY <1>1, <2>1, <2>2 DEF Demo, BuildFits
    <2>4. \A d : Shows(d)' <=> Shows(d)
      BY <1>1, <2>1 DEF Shows
    <2>5. Demo'
      BY <1>1, <2>1, <2>2, <2>3, <2>4 DEF Demo
    <2>6. Lists'
      BY <1>1, <2>1, <2>2, ListsStay
    <2> QED
      BY <2>5, <2>6
  <1>6. Unasked'
    BY <1>1 DEF IInv, Unasked
  <1> QED
    BY <1>3, <1>4, <1>5, <1>6 DEF IInv

\* A restart forgets who asked, and the repository keeps what there is.
LEMMA RestartKeeps ==
    ASSUME Parameters, IInv, Restart
    PROVE  IInv'
  <1>1. /\ TypeOK /\ Steps /\ Error /\ creating' = "no" /\ pass' = NoPass
        /\ state' = [b \in Builders |-> "idle"] /\ plan' = [b \in Builders |-> NoPlan]
        /\ guestList' = NoList /\ resCache' = NoCache
        /\ unread' = [p \in Pages |-> Idle] /\ found' = [p \in Pages |-> NotFound]
        /\ UNCHANGED <<dir, text, meta, expired, pending, shown, builds, amiss>>
    BY DEF Restart, IInv, sandbox
  <1>2. /\ NoMeta \in Metas /\ NoPlan \in Plans /\ NoPlan.meta = NoMeta /\ ~ NoPlan.listed
        /\ NoList \in [set : BOOLEAN, entry : Metas] /\ NoList.entry = NoMeta
        /\ NoCache \in [set : BOOLEAN, kinds : SUBSET Kinds] /\ ~ NoCache.set
        /\ NotFound \in [kinds : SUBSET Kinds, failed : BOOLEAN]
    BY DEF NoMeta, Metas, Parameters, NoPlan, Plans, NoList, NoCache, NotFound
  <1>3. TypeOK'
    <2>1. errors' \in 0..MaxErrors
      BY <1>1, ErrorFacts
    <2> QED
      BY <1>1, <1>2, <2>1 DEF TypeOK
  <1>4. Steps'
    BY <1>1, <1>2 DEF Steps, PlanFits, Fits, PassFits
  <1>5. ASSUME Sound' PROVE (Demo /\ Lists)'
    <2>1. There' = There /\ (Lives' <=> Lives)
      BY <1>1 DEF There, Lives, Held
    <2>2. Sound /\ Demo
      BY <1>1, <1>5, <2>1 DEF Sound, IInv
    <2>3. \A b \in Builders : BuildFits(b)'
      BY <1>1, <1>2 DEF BuildFits
    <2>4. \A d : Shows(d)' <=> Shows(d)
      BY <1>1, <2>1 DEF Shows
    <2>5. Demo'
      BY <1>1, <2>1, <2>2, <2>3, <2>4 DEF Demo
    <2>6. Lists'
      BY <1>1, <1>2 DEF Lists, PageFits
    <2> QED
      BY <2>5, <2>6
  <1>6. Unasked'
    BY <1>1 DEF Unasked
  <1> QED
    BY <1>3, <1>4, <1>5, <1>6 DEF IInv
------------------------------------------------------------------------------
\* Where nothing moves, all of it stays.
LEMMA StutterKeeps ==
    ASSUME IInv, UNCHANGED vars
    PROVE  IInv'
  <1>1. UNCHANGED <<dir, text, meta, expired, creating, pass, state, plan, pending, guestList,
                    resCache, unread, found, shown, builds, errors, amiss>>
    BY DEF vars, sandbox, cleaning, building, paging, tallies
  <1>2. TypeOK' /\ Unasked'
    BY <1>1 DEF IInv, TypeOK, Unasked
  <1>3. Steps'
    BY <1>1, StepsStay DEF IInv
  <1>4. (Sound' => Sound) /\ (Demo => Demo') /\ (Lists => Lists')
    BY <1>1, DemoStays, ListsStay DEF Sound
  <1> QED
    BY <1>2, <1>3, <1>4 DEF IInv

\* Whoever moves, the sandbox and everybody's place in it stay sound.
LEMMA NextKeeps ==
    ASSUME Parameters, IInv, [Next]_vars
    PROVE  IInv'
  <1>1. ASSUME NEW b \in Builders, Build(b) PROVE IInv'
    BY <1>1, AskKeeps, RefusedKeeps, ReadMetaKeeps, ListDemoKeeps, LoadHitKeeps, LoadReadKeeps,
       LoadStoreKeeps, CheckApiKeeps, ListSiblingsKeeps, CommitKeeps, CommitLostKeeps DEF Build
  <1>2. ASSUME NEW p \in Pages, Page(p) PROVE IInv'
    BY <1>2, PageHitKeeps, PageListKeeps, PageFetchKeeps, PageStoreKeeps DEF Page
  <1>3. ASSUME Create PROVE IInv'
    BY <1>3, CreateSeedsKeeps, CreateLandsKeeps, CreateFailsKeeps, CreateReturnsKeeps DEF Create
  <1>4. ASSUME Pass PROVE IInv'
    BY <1>4, PassListsKeeps, PassDeletesKeeps, PassEndsKeeps DEF Pass
  <1>5. ASSUME NEW files \in pending, CommitLate(files) PROVE IInv'
    BY <1>5, CommitLateKeeps
  <1>6. CASE UNCHANGED vars
    BY <1>6, StutterKeeps
  <1> QED
    BY <1>1, <1>2, <1>3, <1>4, <1>5, <1>6, CacheExpiresKeeps, ListExpiresKeeps, ExpireKeeps,
       RestartKeeps DEF Next

\* The invariant that carries the theorems below.
LEMMA Inductive ==
    ASSUME Parameters
    PROVE  Safety => []IInv
  BY InitIInv, NextKeeps, PTL DEF Safety

\* All that the module's invariants say, it says.
LEMMA InvariantFacts ==
    IInv => TypeOK /\ DemoWhole /\ WholeLists
  <1>1. IInv => TypeOK
    BY DEF IInv
  <1>2. IInv => DemoWhole
    BY DEF IInv, Sound, Lives, Fine, Demo, Shows, DemoWhole
  <1>3. IInv => WholeLists
    BY DEF IInv, Sound, Lives, Fine, Lists, WholeLists
  <1> QED
    BY <1>1, <1>2, <1>3

\* Every state of a sandbox and of the requests for it is of its type, and no pass, plan
\* or cache names anything but the kinds there are (handleCreateGuestResourceBatch,
\* handlePatchGuestResource, handleListResources, deleteGuestWorkspaceFiles).
THEOREM TypeCorrect ==
    ASSUME Parameters
    PROVE  Safety => []TypeOK
  BY InvariantFacts, Inductive, PTL

\* "Each sandbox runs one demo" (guest.go:312): however many requests build and patch,
\* and in whatever order their reads and commits come among creates, expiry, delete
\* passes and restarts, a live sandbox holds nothing or exactly one build's files, for
\* its own slot, except after builds whose reads overlap, a listing that lags, a commit
\* that lands late, and what is left of the name's last life.
THEOREM DemoIsWhole ==
    ASSUME Parameters
    PROVE  Safety => []DemoWhole
  BY InvariantFacts, Inductive, PTL

\* The cached resources of a live sandbox are the whole demo or nothing, never part of
\* it, however a page's reads and their failures fall among everything else
\* (handleListResources), with the same exceptions.
THEOREM ListsAreWhole ==
    ASSUME Parameters
    PROVE  Safety => []WholeLists
  BY InvariantFacts, Inductive, PTL
=============================================================================
