-------------------------- MODULE PostAsks_proofs --------------------------
(***************************************************************************)
(* Requests, worker and tick, for any posts, requests, ticks and limits:   *)
(* the stores keep their types, the allowance is charged at most once an   *)
(* ask and never for the month's own plan, and a stranded post is offered  *)
(* to the queue no oftener than its bound.                                 *)
(***************************************************************************)
EXTENDS PostAsks, FiniteSetTheorems, TLAPS

USE DEF envVars, vars

-----------------------------------------------------------------------------
(* Types.  What a step does to a record of a store, field by field, is     *)
(* proved here once; the invariants below read it from these lemmas.       *)

TickRecords ==
  [pc : {"idle", "sweep", "stamp", "retire", "release", "unflag"},
   todo : SUBSET Candidates, at : SUBSET Candidates, budget : 0..Limit]

Hands(k) == k.todo \cup k.at

\* A tick has a post between its two statements only where the second one is due, and
\* what it sweeps has a pass left.
TickTyped(k) ==
  /\ k \in TickRecords
  /\ k.pc \in {"sweep", "stamp"} => \A c \in Hands(k) : c.meta.sweeps < MaxSweeps
  /\ k.pc \notin {"stamp", "unflag"} => k.at = {}
  /\ k.pc = "unflag" => k.budget > 0

\* A job in the queue has an attempt left: a death of the engine may start it again.
JobTyped(j) == j \in Jobs /\ (j.state # "none" => j.tries > 0)

TypeInv ==
  /\ row \in [Posts -> Rows]
  /\ job \in [Posts -> Jobs] /\ \A p \in Posts : JobTyped(job[p])
  /\ req \in [Requests -> Reqs]
  /\ tick \in [Ticks -> TickRecords] /\ \A t \in Ticks : TickTyped(tick[t])
  /\ used \in Nat /\ charged \in [Asks -> Nat] /\ swept \in [Posts -> Nat]
  /\ crashes \in Nat /\ refusals \in Nat /\ crashes + refusals <= MaxFaults

\* The store changes at one place, and there to a record of its type.
RowAt(p) == /\ row' \in [Posts -> Rows] /\ row'[p].system = row[p].system
            /\ \A q \in Posts \ {p} : row'[q] = row[q]
ReqAt(r) == req' \in [Requests -> Reqs] /\ \A s \in Requests \ {r} : req'[s] = req[s]
JobAt(p) == job' \in [Posts -> Jobs] /\ JobTyped(job'[p]) /\ \A q \in Posts \ {p} : job'[q] = job[q]
TickAt(t) == tick' \in [Ticks -> TickRecords] /\ TickTyped(tick'[t])
             /\ \A u \in Ticks \ {t} : tick'[u] = tick[u]

LEMMA TypeInvTypes == TypeInv => TypeOK
BY DEF TypeInv, TypeOK, TickRecords

LEMMA RowPut ==
  ASSUME TypeInv, NEW p \in Posts, NEW w \in Rows, w.system = row[p].system,
         row' = [row EXCEPT ![p] = w]
  PROVE  RowAt(p) /\ row'[p] = w
BY DEF TypeInv, RowAt

LEMMA ReqPut ==
  ASSUME TypeInv, NEW r \in Requests, NEW v \in Reqs, req' = [req EXCEPT ![r] = v]
  PROVE  ReqAt(r) /\ req'[r] = v
BY DEF TypeInv, ReqAt

LEMMA JobPut ==
  ASSUME TypeInv, NEW p \in Posts, NEW j, JobTyped(j), job' = [job EXCEPT ![p] = j]
  PROVE  JobAt(p) /\ job'[p] = j
BY DEF JobAt, JobTyped, TypeInv

LEMMA TickPut ==
  ASSUME TypeInv, NEW t \in Ticks, NEW k, TickTyped(k), tick' = [tick EXCEPT ![t] = k]
  PROVE  TickAt(t) /\ tick'[t] = k
<1>1. tick \in [Ticks -> TickRecords] /\ k \in TickRecords
  BY DEF TickTyped, TypeInv
<1>2. tick' \in [Ticks -> TickRecords] /\ tick'[t] = k /\ \A u \in Ticks \ {t} : tick'[u] = tick[u]
  BY <1>1
<1>3. TickTyped(tick'[t])
  BY <1>2
<1> QED
  BY <1>2, <1>3 DEF TickAt

\* One place at most in each store: all of them keep their types.
LEMMA TypesStay ==
  ASSUME TypeInv,
         UNCHANGED row \/ \E p \in Posts : RowAt(p),
         UNCHANGED req \/ \E r \in Requests : ReqAt(r),
         UNCHANGED job \/ \E p \in Posts : JobAt(p),
         UNCHANGED tick \/ \E t \in Ticks : TickAt(t),
         used' \in Nat, charged' \in [Asks -> Nat], swept' \in [Posts -> Nat],
         crashes' \in Nat, refusals' \in Nat, crashes' + refusals' <= MaxFaults
  PROVE  TypeInv'
<1>1. row' \in [Posts -> Rows] /\ req' \in [Requests -> Reqs]
  BY DEF TypeInv, RowAt, ReqAt
<1>2. (job \in [Posts -> Jobs] /\ \A p \in Posts : JobTyped(job[p]))'
  BY DEF TypeInv, JobAt, JobTyped
<1>3. (tick \in [Ticks -> TickRecords] /\ \A t \in Ticks : TickTyped(tick[t]))'
  <2>1. ASSUME NEW t \in Ticks, TickAt(t), NEW u \in Ticks PROVE TickTyped(tick'[u])
    <3>1. CASE u = t
      BY <2>1, <3>1 DEF TickAt
    <3>2. CASE u # t
      BY <2>1, <3>2 DEF TickAt, TypeInv
    <3> QED
      BY <3>1, <3>2
  <2>2. ASSUME NEW t \in Ticks, TickAt(t) PROVE tick' \in [Ticks -> TickRecords]
    BY <2>2 DEF TickAt
  <2>3. CASE UNCHANGED tick
    BY <2>3 DEF TypeInv, TickTyped, Hands
  <2>4. ASSUME NEW u \in Ticks, TickTyped(tick'[u]) PROVE TickTyped(tick[u])'
    BY <2>4 DEF TickTyped, Hands
  <2> QED
    BY <2>1, <2>2, <2>3, <2>4
<1> QED
  BY <1>1, <1>2, <1>3 DEF TypeInv

LEMMA TypeInvInit == Init => TypeInv
<1> SUFFICES ASSUME Init PROVE TypeInv
  OBVIOUS
<1>1. PICK how \in [Posts -> {"absent", "generating", "declined", "finished"}] :
        /\ row = [p \in Posts |->
             [status |-> IF how[p] \in {"absent", "generating"} THEN how[p] ELSE "new",
              live |-> TRUE, past |-> FALSE, aged |-> FALSE, system |-> how[p] # "absent",
              meta |-> [NoMeta EXCEPT !.ungrounded = how[p] = "declined"]]]
        /\ job = [p \in Posts |-> IF how[p] = "generating" THEN Queued("plan", FALSE) ELSE NoJob]
  BY DEF Init
<1>0. 0 \in 0..MaxSweeps
  BY LimitsAssumption
<1>2. NoMeta \in Meta /\ \A b \in BOOLEAN : [NoMeta EXCEPT !.ungrounded = b] \in Meta
  BY <1>0 DEF NoMeta, Meta
<1>3. row \in [Posts -> Rows]
  BY <1>1, <1>2 DEF Rows, Statuses
<1>4. JobTyped(NoJob) /\ JobTyped(Queued("plan", FALSE))
  BY <1>2, LimitsAssumption DEF JobTyped, Jobs, NoJob, Queued, Asks
<1>5. job \in [Posts -> Jobs] /\ \A p \in Posts : JobTyped(job[p])
  BY <1>1, <1>4 DEF JobTyped
<1>6. (CHOOSE p \in Posts : TRUE) \in Posts
  BY PostsAssumption
<1>7. req \in [Requests -> Reqs]
  BY <1>2, <1>6 DEF Init, Reqs, Kinds, Asks, Statuses
<1>8. TickTyped(IdleTick)
  BY LimitsAssumption DEF TickTyped, TickRecords, IdleTick, Hands
<1>9. tick \in [Ticks -> TickRecords] /\ \A t \in Ticks : TickTyped(tick[t])
  BY <1>8 DEF Init, TickTyped
<1>10. /\ used \in Nat /\ charged \in [Asks -> Nat] /\ swept \in [Posts -> Nat]
       /\ crashes \in Nat /\ refusals \in Nat /\ crashes + refusals <= MaxFaults
  BY LimitsAssumption DEF Init
<1> QED
  BY <1>3, <1>5, <1>7, <1>9, <1>10 DEF TypeInv

-----------------------------------------------------------------------------
(* What the requests do.                                                   *)

ReqGoes(r, pc) ==
  /\ ReqAt(r) /\ req'[r].pc = pc
  /\ req'[r].kind = req[r].kind /\ req'[r].post = req[r].post /\ req'[r].ask = req[r].ask

Same(m, n) ==
  m.pending = n.pending /\ m.banked = n.banked /\ m.sweeps = n.sweeps /\ m.ungrounded = n.ungrounded

LEMMA NoMetaIs ==
  /\ NoMeta \in Meta /\ 0 \in 0..MaxSweeps
  /\ NoMeta.pending = None /\ ~NoMeta.banked /\ NoMeta.sweeps = 0 /\ ~NoMeta.ungrounded
<1>1. 0 \in 0..MaxSweeps
  BY LimitsAssumption
<1> QED
  BY <1>1 DEF NoMeta, Meta

LEMMA EndsDoes ==
  ASSUME TypeInv, NEW r \in Requests, Ends(r)
  PROVE  ReqGoes(r, "done")
<1>0. PICK v : v = [req[r] EXCEPT !.pc = "done", !.status = "absent", !.meta = NoMeta]
  OBVIOUS
<1>1. req[r] \in Reqs
  BY DEF TypeInv
<1>2. v \in Reqs /\ v.pc = "done" /\ v.kind = req[r].kind /\ v.post = req[r].post
      /\ v.ask = req[r].ask
  BY <1>0, <1>1, NoMetaIs DEF Reqs, Statuses
<1>3. req' = [req EXCEPT ![r] = v]
  BY <1>0, Zenon DEF Ends
<1> QED
  BY <1>2, <1>3, ReqPut DEF ReqGoes

LEMMA GoesDoes ==
  ASSUME TypeInv, NEW r \in Requests, NEW pc \in {"enqueue", "refused"}, Goes(r, pc)
  PROVE  ReqGoes(r, pc)
<1>0. PICK v : v = [req[r] EXCEPT !.pc = pc]
  OBVIOUS
<1>1. req[r] \in Reqs
  BY DEF TypeInv
<1>2. v \in Reqs /\ v.pc = pc /\ v.kind = req[r].kind /\ v.post = req[r].post
      /\ v.ask = req[r].ask
  BY <1>0, <1>1 DEF Reqs
<1>3. req' = [req EXCEPT ![r] = v]
  BY <1>0, Zenon DEF Goes
<1> QED
  BY <1>2, <1>3, ReqPut DEF ReqGoes

LEMMA RowTyped ==
  ASSUME TypeInv, NEW p \in Posts
  PROVE  row[p] \in Rows /\ row[p].meta \in Meta /\ row[p].status \in Statuses
BY DEF TypeInv, Rows

LEMMA ReqTyped ==
  ASSUME TypeInv, NEW r \in Requests
  PROVE  req[r] \in Reqs /\ req[r].post \in Posts /\ req[r].meta \in Meta /\ req[r].ask \in Asks
BY DEF TypeInv, Reqs

LEMMA ReadsDoes ==
  ASSUME TypeInv, NEW r \in Requests, NEW pc \in {"bank", "mark"}, Reads(r, pc)
  PROVE  ReqGoes(r, pc) /\ req'[r].meta = row[req[r].post].meta
<1> DEFINE p == req[r].post
<1>0. PICK v : v = [req[r] EXCEPT !.pc = pc, !.status = row[p].status, !.meta = row[p].meta]
  OBVIOUS
<1>1. req[r] \in Reqs /\ row[p].meta \in Meta /\ row[p].status \in Statuses
  BY ReqTyped, RowTyped
<1> HIDE DEF p
<1>2. v \in Reqs /\ v.pc = pc /\ v.kind = req[r].kind /\ v.post = req[r].post
      /\ v.ask = req[r].ask /\ v.meta = row[p].meta
  BY <1>0, <1>1 DEF Reqs
<1>3. req' = [req EXCEPT ![r] = v]
  BY <1>0, Zenon DEF Reads, p
<1> QED
  BY <1>2, <1>3, ReqPut DEF ReqGoes, p

Begins(r, pc, kind, p, ask) ==
  /\ req[r].pc = "idle" /\ ReqAt(r)
  /\ req'[r].pc = pc /\ req'[r].kind = kind /\ req'[r].post = p /\ req'[r].ask = ask
  /\ req'[r].meta = row[p].meta

LEMMA BeginDoes ==
  ASSUME TypeInv, NEW r \in Requests, NEW p \in Posts, NEW pc \in {"check", "patch"},
         NEW kind \in Kinds, NEW ask \in Asks, Begin(r, pc, kind, p, ask)
  PROVE  Begins(r, pc, kind, p, ask)
<1>0. PICK v : v = [pc |-> pc, kind |-> kind, post |-> p, ask |-> ask,
                    status |-> row[p].status, meta |-> row[p].meta]
  OBVIOUS
<1>1. v \in Reqs /\ v.pc = pc /\ v.kind = kind /\ v.post = p /\ v.ask = ask
      /\ v.meta = row[p].meta
  BY <1>0, RowTyped DEF Reqs
<1>2. req' = [req EXCEPT ![r] = v]
  BY <1>0, Zenon DEF Begin
<1> QED
  BY <1>1, <1>2, ReqPut DEF Begins, Begin

\* A row takes a status and metadata.
RowBecomes(p, status, m) ==
  RowAt(p) /\ row'[p].status = status /\ row'[p].meta = m /\ row'[p].aged = FALSE

LEMMA RowWrites ==
  ASSUME TypeInv, NEW p \in Posts, NEW status \in Statuses, NEW m \in Meta,
         row' = [row EXCEPT ![p] = [Written(@) EXCEPT !.status = status, !.meta = m]]
  PROVE  RowBecomes(p, status, m)
<1>0. PICK w : w = [Written(row[p]) EXCEPT !.status = status, !.meta = m]
  OBVIOUS
<1>1. w \in Rows /\ w.status = status /\ w.meta = m /\ w.aged = FALSE
      /\ w.system = row[p].system
  BY <1>0, RowTyped DEF Rows, Written
<1>2. row' = [row EXCEPT ![p] = w]
  BY <1>0, Zenon
<1> QED
  BY <1>1, <1>2, RowPut DEF RowBecomes

LEMMA AddDoes ==
  ASSUME TypeInv, NEW r \in Requests, NEW p \in Posts, AskForAdd(r, p)
  PROVE  /\ row[p].status = "absent" /\ RowAt(p) /\ row'[p].status = "generating"
         /\ row'[p].meta.pending = r /\ ~row'[p].meta.banked /\ row'[p].meta.sweeps = 0
         /\ ~row'[p].meta.ungrounded
         /\ Begins(r, "check", "generate", p, r)
         /\ UNCHANGED <<job, tick, used, charged, swept, envVars>>
<1>0. PICK m : m = [NoMeta EXCEPT !.pending = r]
  OBVIOUS
<1>1. m \in Meta /\ m.pending = r /\ ~m.banked /\ m.sweeps = 0 /\ ~m.ungrounded
  BY <1>0, NoMetaIs DEF Meta, Asks
<1>2. PICK w : w = [row[p] EXCEPT !.status = "generating", !.meta = m]
  OBVIOUS
<1>3. w \in Rows /\ w.status = "generating" /\ w.meta = m /\ w.system = row[p].system
  BY <1>1, <1>2, RowTyped DEF Rows, Statuses
<1>4. row' = [row EXCEPT ![p] = w]
  BY <1>0, <1>2, Zenon DEF AskForAdd
<1>5. RowAt(p) /\ row'[p] = w
  BY <1>3, <1>4, RowPut
<1>6. Begins(r, "check", "generate", p, r)
  BY BeginDoes DEF AskForAdd, Asks, Kinds
<1> QED
  BY <1>1, <1>3, <1>5, <1>6 DEF AskForAdd

LEMMA SubjectDoes ==
  ASSUME TypeInv, NEW r \in Requests, NEW p \in Posts, AskWithSubject(r, p)
  PROVE  /\ row[p].status # "absent" /\ row[p].meta.ungrounded
         /\ RowAt(p) /\ row'[p].status = row[p].status /\ row'[p].aged = FALSE
         /\ row'[p].meta.pending = row[p].meta.pending /\ row'[p].meta.banked = row[p].meta.banked
         /\ row'[p].meta.sweeps = row[p].meta.sweeps /\ ~row'[p].meta.ungrounded
         /\ Begins(r, "check", "generate", p, r)
         /\ UNCHANGED <<job, tick, used, charged, swept, envVars>>
<1>0. PICK w : w = [Written(row[p]) EXCEPT !.meta.ungrounded = FALSE]
  OBVIOUS
<1>a. PICK m : m = [row[p].meta EXCEPT !.ungrounded = FALSE]
  OBVIOUS
<1>b. m \in Meta
  BY <1>a, RowTyped DEF Meta
<1>c. w = [Written(row[p]) EXCEPT !.meta = m]
  BY <1>0, <1>a, RowTyped DEF Rows, Written
<1>1. w \in Rows /\ w.status = row[p].status /\ w.aged = FALSE /\ w.system = row[p].system
      /\ w.meta = [row[p].meta EXCEPT !.ungrounded = FALSE]
  BY <1>a, <1>b, <1>c, RowTyped DEF Rows, Written
<1>2. /\ w.meta.pending = row[p].meta.pending /\ w.meta.banked = row[p].meta.banked
      /\ w.meta.sweeps = row[p].meta.sweeps /\ ~w.meta.ungrounded
  BY <1>1, RowTyped DEF Meta
<1>3. row' = [row EXCEPT ![p] = w]
  BY <1>0, Zenon DEF AskWithSubject
<1>4. RowAt(p) /\ row'[p] = w
  BY <1>1, <1>3, RowPut
<1>5. Begins(r, "check", "generate", p, r)
  BY BeginDoes DEF AskWithSubject, Asks, Kinds
<1> QED
  BY <1>1, <1>2, <1>4, <1>5 DEF AskWithSubject, IsEditable

LEMMA RewriteDoes ==
  ASSUME TypeInv, NEW r \in Requests, NEW p \in Posts, AskForRewrite(r, p)
  PROVE  /\ row[p].status # "absent" /\ Begins(r, "check", "rewrite", p, r)
         /\ UNCHANGED <<row, job, tick, used, charged, swept, envVars>>
BY BeginDoes DEF AskForRewrite, Asks, Kinds, IsEditable

LEMMA PatchReadsDoes ==
  ASSUME TypeInv, NEW r \in Requests, NEW p \in Posts, PatchReads(r, p)
  PROVE  /\ row[p].status # "absent"
         /\ \E kind \in {"edit", "time"} : Begins(r, "patch", kind, p, "plan")
         /\ UNCHANGED <<row, job, tick, used, charged, swept, envVars>>
<1>1. PICK kind \in {"edit", "time"} : Begin(r, "patch", kind, p, "plan")
  BY DEF PatchReads
<1>2. Begins(r, "patch", kind, p, "plan")
  BY <1>1, BeginDoes DEF Asks, Kinds
<1> QED
  BY <1>2 DEF PatchReads, IsEditable

LEMMA CheckDoes ==
  ASSUME TypeInv, NEW r \in Requests, Check(r)
  PROVE  /\ req[r].pc = "check"
         /\ \/ ReqGoes(r, "done")
            \/ req[r].kind = "rewrite" /\ ReqGoes(r, "enqueue")
            \/ /\ req[r].kind # "rewrite" /\ req'[r].meta = row[req[r].post].meta
               /\ ReqGoes(r, "bank") \/ ReqGoes(r, "mark")
         /\ UNCHANGED <<row, job, tick, used, charged, swept, envVars>>
<1>1. \/ Ends(r)
      \/ req[r].kind = "rewrite" /\ Goes(r, "enqueue")
      \/ req[r].kind # "rewrite" /\ (Reads(r, "bank") \/ Reads(r, "mark"))
  BY DEF Check
<1> QED
  BY <1>1, EndsDoes, GoesDoes, ReadsDoes DEF Check

LEMMA BankDoes ==
  ASSUME TypeInv, NEW r \in Requests, Bank(r)
  PROVE  \E m \in Meta :
         /\ req[r].pc = "bank" /\ ReqGoes(r, "done")
         /\ RowBecomes(req[r].post, "generation_failed", m)
         /\ m.pending = req[r].ask /\ m.banked
         /\ m.sweeps = req[r].meta.sweeps /\ m.ungrounded = req[r].meta.ungrounded
         /\ UNCHANGED <<job, tick, used, charged, swept, envVars>>
<1>0. PICK m : m = [req[r].meta EXCEPT !.pending = req[r].ask, !.banked = TRUE, !.error = "deterministic"]
  OBVIOUS
<1>1. m \in Meta /\ m.pending = req[r].ask /\ m.banked /\ m.sweeps = req[r].meta.sweeps
      /\ m.ungrounded = req[r].meta.ungrounded
  BY <1>0, ReqTyped DEF Meta
<1>2. row' = [row EXCEPT ![req[r].post] = [Written(@) EXCEPT !.status = "generation_failed", !.meta = m]]
  BY <1>0, Zenon DEF Bank
<1>3. RowBecomes(req[r].post, "generation_failed", m)
  BY <1>1, <1>2, RowWrites, ReqTyped DEF Statuses
<1> QED
  BY <1>1, <1>3, EndsDoes DEF Bank

LEMMA MarkDoes ==
  ASSUME TypeInv, NEW r \in Requests, Mark(r)
  PROVE  \E m \in Meta :
         /\ req[r].pc = "mark" /\ ReqGoes(r, "enqueue")
         /\ RowBecomes(req[r].post, "generating", m)
         /\ m.pending = req[r].ask /\ m.banked = req[r].meta.banked
         /\ m.sweeps = req[r].meta.sweeps /\ m.ungrounded = req[r].meta.ungrounded
         /\ UNCHANGED <<job, tick, used, charged, swept, envVars>>
<1>0. PICK m : m = [req[r].meta EXCEPT !.pending = req[r].ask, !.error = "none"]
  OBVIOUS
<1>1. m \in Meta /\ m.pending = req[r].ask /\ m.banked = req[r].meta.banked
      /\ m.sweeps = req[r].meta.sweeps /\ m.ungrounded = req[r].meta.ungrounded
  BY <1>0, ReqTyped DEF Meta
<1>2. row' = [row EXCEPT ![req[r].post] = [Written(@) EXCEPT !.status = "generating", !.meta = m]]
  BY <1>0, Zenon DEF Mark
<1>3. RowBecomes(req[r].post, "generating", m)
  BY <1>1, <1>2, RowWrites, ReqTyped DEF Statuses
<1> QED
  BY <1>1, <1>3, GoesDoes DEF Mark

LEMMA QueuedIs ==
  ASSUME NEW ask \in Asks, NEW billable \in BOOLEAN
  PROVE  LET j == Queued(ask, billable) IN
         /\ JobTyped(j) /\ j.state = "waiting" /\ j.ask = ask /\ j.billable = billable
         /\ ~j.isGenerating
BY NoMetaIs, LimitsAssumption DEF Queued, JobTyped, Jobs

LEMMA EnqueueDoes ==
  ASSUME TypeInv, NEW r \in Requests, Enqueue(r)
  PROVE  LET p == req[r].post IN
         /\ req[r].pc = "enqueue" /\ ReqGoes(r, "done")
         /\ \/ Busy(p) /\ UNCHANGED job
            \/ ~Busy(p) /\ JobAt(p) /\ job'[p] = Queued(req[r].ask, TRUE)
         /\ UNCHANGED <<row, tick, used, charged, swept, envVars>>
<1> DEFINE p == req[r].post
<1>1. p \in Posts /\ req[r].ask \in Asks
  BY ReqTyped
<1>2. JobTyped(Queued(req[r].ask, TRUE))
  BY <1>1, QueuedIs
<1>3. \/ Busy(p) /\ UNCHANGED job
      \/ ~Busy(p) /\ job' = [job EXCEPT ![p] = Queued(req[r].ask, TRUE)]
  BY DEF Enqueue
<1> HIDE DEF p
<1>4. \/ Busy(p) /\ UNCHANGED job
      \/ ~Busy(p) /\ JobAt(p) /\ job'[p] = Queued(req[r].ask, TRUE)
  BY <1>1, <1>2, <1>3, JobPut
<1> QED
  BY <1>4, EndsDoes DEF Enqueue, p

LEMMA EnqueueErrorDoes ==
  ASSUME TypeInv, NEW r \in Requests, EnqueueError(r)
  PROVE  /\ req[r].pc = "enqueue"
         /\ ReqGoes(r, "done") \/ (req[r].kind # "rewrite" /\ ReqGoes(r, "refused"))
         /\ refusals' = refusals + 1 /\ Fault
         /\ UNCHANGED <<row, job, tick, used, charged, swept, crashes>>
BY EndsDoes, GoesDoes DEF EnqueueError

LEMMA RefusedDoes ==
  ASSUME TypeInv, NEW r \in Requests, Refused(r)
  PROVE  /\ req[r].pc = "refused" /\ ReqGoes(r, "done")
         /\ \/ UNCHANGED row
            \/ \E m \in Meta : RowBecomes(req[r].post, "generation_failed", m)
                               /\ Same(m, row[req[r].post].meta)
         /\ UNCHANGED <<job, tick, used, charged, swept, envVars>>
<1> DEFINE p == req[r].post
<1>1. PICK error \in {"transient", "deterministic"} :
        row' = IF ~row[p].live THEN row
               ELSE [row EXCEPT ![p] = [Written(@) EXCEPT !.status = "generation_failed",
                                                          !.meta.error = error]]
  BY DEF Refused
<1>2. p \in Posts
  BY ReqTyped
<1> HIDE DEF p
<1>3. PICK m : m = [row[p].meta EXCEPT !.error = error]
  OBVIOUS
<1>4. m \in Meta /\ Same(m, row[p].meta)
  BY <1>2, <1>3, RowTyped DEF Meta, Same
<1>5. [Written(row[p]) EXCEPT !.status = "generation_failed", !.meta.error = error]
        = [Written(row[p]) EXCEPT !.status = "generation_failed", !.meta = m]
  BY <1>2, <1>3, RowTyped DEF Rows, Written
<1>6. \/ UNCHANGED row
      \/ row' = [row EXCEPT ![p] = [Written(@) EXCEPT !.status = "generation_failed", !.meta = m]]
  BY <1>1, <1>5, Zenon
<1>7. UNCHANGED row \/ RowBecomes(p, "generation_failed", m)
  BY <1>2, <1>4, <1>6, RowWrites DEF Statuses
<1> QED
  BY <1>4, <1>7, EndsDoes DEF Refused, p

LEMMA PatchWritesDoes ==
  ASSUME TypeInv, NEW r \in Requests, PatchWrites(r)
  PROVE  /\ req[r].pc = "patch" /\ ReqGoes(r, "done")
         /\ \E status \in {"new", "edited"} : \E m \in {req[r].meta, row[req[r].post].meta} :
              RowBecomes(req[r].post, status, m)
         /\ UNCHANGED <<job, tick, used, charged, swept, envVars>>
<1> DEFINE p == req[r].post
           status == IF req[r].status = "new" THEN "new" ELSE "edited"
           m == IF req[r].kind = "time" THEN req[r].meta ELSE row[p].meta
<1>1. row' = [row EXCEPT ![p] = [Written(@) EXCEPT !.status = status, !.meta = m]]
  BY Zenon DEF PatchWrites
<1>2. p \in Posts /\ status \in {"new", "edited"} /\ m \in {req[r].meta, row[p].meta}
  BY ReqTyped
<1> HIDE DEF p, status, m
<1>3. m \in Meta /\ status \in Statuses
  BY <1>2, ReqTyped, RowTyped DEF Statuses
<1>4. RowBecomes(p, status, m)
  BY <1>1, <1>2, <1>3, RowWrites
<1> QED
  BY <1>2, <1>4, EndsDoes DEF PatchWrites, p

LEMMA AppCrashDoes ==
  ASSUME TypeInv, NEW r \in Requests, AppCrash(r)
  PROVE  /\ req[r].pc \notin {"idle", "done"} /\ ReqGoes(r, "done")
         /\ crashes' = crashes + 1 /\ Fault
         /\ UNCHANGED <<row, job, tick, used, charged, swept, refusals>>
BY EndsDoes DEF AppCrash

-----------------------------------------------------------------------------
(* What the job and the passage of time do.                                *)

RowSame(p) ==   \* the row moves without its metadata
  RowAt(p) /\ row'[p].meta = row[p].meta

LEMMA JobTypedNow ==
  ASSUME TypeInv, NEW p \in Posts
  PROVE  job[p] \in Jobs /\ JobTyped(job[p]) /\ job[p].meta \in Meta /\ job[p].ask \in Asks
BY DEF TypeInv, JobTyped, Jobs

\* A job goes on for the same ask.
JobGoes(p, state) ==
  /\ JobAt(p) /\ job'[p].state = state
  /\ job'[p].ask = job[p].ask /\ job'[p].billable = job[p].billable

LEMMA RemoveDoes ==
  ASSUME TypeInv, NEW p \in Posts, Remove(p)
  PROVE  /\ row[p].status # "absent" /\ RowSame(p)
         /\ row'[p].status = row[p].status /\ row'[p].aged = FALSE
         /\ UNCHANGED <<job, req, tick, used, charged, swept, envVars>>
<1>0. PICK w : w = [Written(row[p]) EXCEPT !.live = FALSE]
  OBVIOUS
<1>1. w \in Rows /\ w.status = row[p].status /\ w.aged = FALSE /\ w.system = row[p].system
      /\ w.meta = row[p].meta
  BY <1>0, RowTyped DEF Rows, Written
<1>2. row' = [row EXCEPT ![p] = w]
  BY <1>0, Zenon DEF Remove
<1> QED
  BY <1>1, <1>2, RowPut DEF RowSame, Remove, IsEditable

LEMMA RevertDoes ==
  ASSUME TypeInv, NEW p \in Posts, Revert(p)
  PROVE  /\ row[p].status # "absent" /\ RowSame(p) /\ row'[p].status \in {"new", "planned"}
         /\ UNCHANGED <<job, req, tick, used, charged, swept, envVars>>
<1>0. PICK w : w = IF row[p].status = "new" THEN [Written(row[p]) EXCEPT !.live = FALSE]
                   ELSE [Written(row[p]) EXCEPT !.status = "planned"]
  OBVIOUS
<1>1. w \in Rows /\ w.status \in {"new", "planned"} /\ w.system = row[p].system
      /\ w.meta = row[p].meta
  BY <1>0, RowTyped DEF Rows, Written, Statuses
<1>2. row' = [row EXCEPT ![p] = w]
  BY <1>0, Zenon DEF Revert
<1> QED
  BY <1>1, <1>2, RowPut DEF RowSame, Revert, IsEditable

LEMMA AgesDoes ==
  ASSUME TypeInv, NEW p \in Posts, Ages(p)
  PROVE  /\ row[p].status = "generating" /\ ~Touched(p) /\ Timely(p)
         /\ RowSame(p) /\ row'[p].status = "generating"
         /\ UNCHANGED <<job, req, tick, used, charged, swept, envVars>>
<1>0. PICK w : w = [row[p] EXCEPT !.aged = TRUE]
  OBVIOUS
<1>1. w \in Rows /\ w.status = row[p].status /\ w.system = row[p].system
      /\ w.meta = row[p].meta
  BY <1>0, RowTyped DEF Rows
<1>2. row' = [row EXCEPT ![p] = w]
  BY <1>0, Zenon DEF Ages
<1> QED
  BY <1>1, <1>2, RowPut DEF RowSame, Ages

LEMMA DayPassesDoes ==
  ASSUME TypeInv, NEW p \in Posts, DayPasses(p)
  PROVE  /\ row[p].status # "absent" /\ RowSame(p) /\ row'[p].status = row[p].status
         /\ row'[p].aged = row[p].aged
         /\ UNCHANGED <<job, req, tick, used, charged, swept, envVars>>
<1>0. PICK w : w = [row[p] EXCEPT !.past = TRUE]
  OBVIOUS
<1>1. w \in Rows /\ w.status = row[p].status /\ w.system = row[p].system
      /\ w.meta = row[p].meta /\ w.aged = row[p].aged
  BY <1>0, RowTyped DEF Rows
<1>2. row' = [row EXCEPT ![p] = w]
  BY <1>0, Zenon DEF DayPasses
<1> QED
  BY <1>1, <1>2, RowPut DEF RowSame, DayPasses

LEMMA JobStartsDoes ==
  ASSUME TypeInv, NEW p \in Posts, JobStarts(p)
  PROVE  /\ job[p].state = "waiting" /\ (job[p].tries = 1 => Timely(p))
         /\ JobGoes(p, "active") /\ job'[p].tries = job[p].tries /\ job'[p].meta = row[p].meta
         /\ job'[p].isGenerating = (row[p].status \in {"generating", "generation_failed"})
         /\ UNCHANGED <<row, req, tick, used, charged, swept, envVars>>
<1>a. PICK b : b = (row[p].status \in {"generating", "generation_failed"})
  OBVIOUS
<1>0. b \in BOOLEAN /\ b = (row[p].status \in {"generating", "generation_failed"})
  BY <1>a
<1>1. PICK j : j = [job[p] EXCEPT !.state = "active", !.meta = row[p].meta, !.isGenerating = b]
  OBVIOUS
<1>2. j \in Jobs /\ j.state = "active" /\ j.meta = row[p].meta /\ j.isGenerating = b
      /\ j.ask = job[p].ask /\ j.billable = job[p].billable /\ j.tries = job[p].tries
  BY <1>0, <1>1, JobTypedNow, RowTyped DEF Jobs
<1>3. JobTyped(j)
  BY <1>2, JobTypedNow DEF JobTyped, JobStarts
<1>4. job' = [job EXCEPT ![p] = j]
  BY <1>0, <1>1, Zenon DEF JobStarts
<1>5. JobAt(p) /\ job'[p] = j
  BY <1>3, <1>4, JobPut
<1> QED
  BY <1>0, <1>2, <1>5 DEF JobStarts, JobGoes

LEMMA JobWritesDoes ==
  ASSUME TypeInv, NEW p \in Posts, JobWrites(p)
  PROVE  /\ job[p].state = "active" /\ Timely(p)
         /\ RowSame(p) /\ row'[p].status \in {"new", "edited"}
         /\ JobGoes(p, "written")
         /\ UNCHANGED <<req, tick, used, charged, swept, envVars>>
<1>0. PICK w : w = [Written(row[p]) EXCEPT !.status = IF job[p].isGenerating THEN "new" ELSE "edited"]
  OBVIOUS
<1>1. w \in Rows /\ w.status \in {"new", "edited"} /\ w.system = row[p].system
      /\ w.meta = row[p].meta
  BY <1>0, RowTyped DEF Rows, Written, Statuses
<1>2. row' = [row EXCEPT ![p] = w]
  BY <1>0, Zenon DEF JobWrites
<1>3. RowSame(p) /\ row'[p].status \in {"new", "edited"}
  BY <1>1, <1>2, RowPut DEF RowSame
<1>4. PICK j : j = [job[p] EXCEPT !.state = "written"]
  OBVIOUS
<1>5. j \in Jobs /\ j.state = "written" /\ j.ask = job[p].ask /\ j.billable = job[p].billable
  BY <1>4, JobTypedNow DEF Jobs
<1>6. JobTyped(j)
  BY <1>4, <1>5, JobTypedNow DEF JobTyped, JobWrites, Jobs
<1>7. job' = [job EXCEPT ![p] = j]
  BY <1>4, Zenon DEF JobWrites
<1>8. JobAt(p) /\ job'[p] = j
  BY <1>6, <1>7, JobPut
<1> QED
  BY <1>3, <1>5, <1>8 DEF JobWrites, JobGoes

LEMMA JobBillsDoes ==
  ASSUME TypeInv, NEW p \in Posts, JobBills(p)
  PROVE  /\ job[p].state = "written" /\ JobGoes(p, "billed")
         /\ used' \in Nat /\ charged' \in [Asks -> Nat]
         /\ \/ UNCHANGED charged
            \/ /\ job[p].billable /\ charged'[job[p].ask] = charged[job[p].ask] + 1
               /\ \A a \in Asks \ {job[p].ask} : charged'[a] = charged[a]
         /\ UNCHANGED <<row, req, tick, swept, envVars>>
<1>1. PICK j : j = [job[p] EXCEPT !.state = "billed"]
  OBVIOUS
<1>2. j \in Jobs /\ j.state = "billed" /\ j.ask = job[p].ask /\ j.billable = job[p].billable
  BY <1>1, JobTypedNow DEF Jobs
<1>3. JobTyped(j)
  BY <1>1, <1>2, JobTypedNow DEF JobTyped, JobBills, Jobs
<1>4. job' = [job EXCEPT ![p] = j]
  BY <1>1, Zenon DEF JobBills
<1>5. JobGoes(p, "billed")
  BY <1>2, <1>3, <1>4, JobPut DEF JobGoes
<1>6. PICK inserted \in BOOLEAN :
        /\ used' = IF inserted /\ job[p].billable THEN used + 1 ELSE used
        /\ charged' = IF inserted /\ job[p].billable THEN [charged EXCEPT ![job[p].ask] = @ + 1]
                      ELSE charged
  BY DEF JobBills
<1>7. charged \in [Asks -> Nat] /\ used \in Nat /\ job[p].ask \in Asks
  BY JobTypedNow DEF TypeInv
<1>8. CASE inserted /\ job[p].billable
  <2>1. charged' = [charged EXCEPT ![job[p].ask] = @ + 1] /\ used' = used + 1
    BY <1>6, <1>8
  <2> QED
    BY <1>5, <1>7, <1>8, <2>1 DEF JobBills
<1>9. CASE ~(inserted /\ job[p].billable)
  BY <1>5, <1>6, <1>7, <1>9 DEF JobBills
<1> QED
  BY <1>8, <1>9

LEMMA JobThrowsDoes ==
  ASSUME TypeInv, NEW p \in Posts, JobThrows(p)
  PROVE  /\ job[p].state = "active" /\ Timely(p)
         /\ \/ /\ job[p].tries > 1 /\ JobGoes(p, "waiting") /\ UNCHANGED row
            \/ /\ job[p].tries = 1 /\ JobGoes(p, "threw")
               /\ \/ UNCHANGED row
                  \/ \E m \in Meta : /\ job[p].isGenerating /\ Same(m, job[p].meta)
                                     /\ RowBecomes(p, "generation_failed", m)
         /\ UNCHANGED <<req, tick, used, charged, swept, envVars>>
<1>1. CASE job[p].tries > 1
  <2>1. PICK j : j = [job[p] EXCEPT !.state = "waiting", !.tries = @ - 1, !.meta = NoMeta,
                                    !.isGenerating = FALSE]
    OBVIOUS
  <2>2. job[p].tries - 1 \in 0..MaxAttempts /\ job[p].tries - 1 > 0
    BY <1>1, JobTypedNow, LimitsAssumption DEF Jobs
  <2>3. j \in Jobs /\ j.state = "waiting" /\ j.ask = job[p].ask /\ j.billable = job[p].billable
        /\ j.tries > 0
    BY <2>1, <2>2, JobTypedNow, NoMetaIs DEF Jobs
  <2>4. JobTyped(j)
    BY <2>3 DEF JobTyped
  <2>5. job' = [job EXCEPT ![p] = j] /\ UNCHANGED row
    <3>1. job[p].tries # 1
      BY <1>1
    <3> QED
      BY <2>1, <3>1, Zenon DEF JobThrows
  <2>6. JobGoes(p, "waiting")
    BY <2>3, <2>4, <2>5, JobPut DEF JobGoes
  <2> QED
    BY <1>1, <2>5, <2>6 DEF JobThrows
<1>2. CASE job[p].tries = 1
  <2>1. PICK j : j = [job[p] EXCEPT !.state = "threw"]
    OBVIOUS
  <2>2. j \in Jobs /\ j.state = "threw" /\ j.ask = job[p].ask /\ j.billable = job[p].billable
    BY <2>1, JobTypedNow DEF Jobs
  <2>3. JobTyped(j)
    BY <2>1, <2>2, JobTypedNow DEF JobTyped, JobThrows, Jobs
  <2>4. ~(job[p].tries > 1)
    BY <1>2
  <2>5. PICK error \in {"transient", "deterministic"} :
          /\ job' = [job EXCEPT ![p] = j]
          /\ row' = IF ~job[p].isGenerating THEN row
                    ELSE [row EXCEPT ![p] = [Written(@) EXCEPT
                            !.status = "generation_failed",
                            !.meta = [job[p].meta EXCEPT !.error = error]]]
    BY <2>1, <2>4, Zenon DEF JobThrows
  <2>6. PICK m : m = [job[p].meta EXCEPT !.error = error]
    OBVIOUS
  <2>7. m \in Meta /\ Same(m, job[p].meta)
    BY <2>6, JobTypedNow DEF Meta, Same
  <2>8. \/ UNCHANGED row
        \/ /\ job[p].isGenerating
           /\ row' = [row EXCEPT ![p] = [Written(@) EXCEPT !.status = "generation_failed", !.meta = m]]
    BY <2>5, <2>6, Zenon
  <2>9. UNCHANGED row \/ (job[p].isGenerating /\ RowBecomes(p, "generation_failed", m))
    BY <2>7, <2>8, RowWrites DEF Statuses
  <2>10. JobGoes(p, "threw")
    BY <2>2, <2>3, <2>5, JobPut DEF JobGoes
  <2> QED
    BY <1>2, <2>7, <2>9, <2>10 DEF JobThrows
<1> QED
  BY <1>1, <1>2 DEF JobThrows

LEMMA JobFinishesDoes ==
  ASSUME TypeInv, NEW p \in Posts, JobFinishes(p)
  PROVE  /\ job[p].state \in {"billed", "threw"} /\ JobAt(p) /\ job'[p].state = "none"
         /\ UNCHANGED <<row, req, tick, used, charged, swept, envVars>>
<1>1. JobTyped(NoJob) /\ NoJob.state = "none"
  BY NoMetaIs, LimitsAssumption DEF NoJob, JobTyped, Jobs, Asks
<1> QED
  BY <1>1, JobPut DEF JobFinishes

LEMMA WorkerCrashDoes ==
  ASSUME TypeInv, WorkerCrash
  PROVE  /\ job' \in [Posts -> Jobs]
         /\ \A p \in Posts :
              /\ JobTyped(job'[p])
              /\ \/ job[p].state \in {"none", "waiting"} /\ job'[p] = job[p]
                 \/ /\ job[p].state \notin {"none", "waiting"} /\ job'[p].state = "waiting"
                    /\ job'[p].ask = job[p].ask /\ job'[p].billable = job[p].billable
         /\ tick' \in [Ticks -> TickRecords]
         /\ \A t \in Ticks : TickTyped(tick'[t]) /\ Hands(tick'[t]) = {} /\ tick'[t].pc = "idle"
         /\ crashes' = crashes + 1 /\ Fault
         /\ UNCHANGED <<row, req, used, charged, swept, refusals>>
<1>1. ASSUME NEW p \in Posts
      PROVE  /\ JobTyped(job'[p])
             /\ \/ job[p].state \in {"none", "waiting"} /\ job'[p] = job[p]
                \/ /\ job[p].state \notin {"none", "waiting"} /\ job'[p].state = "waiting"
                   /\ job'[p].ask = job[p].ask /\ job'[p].billable = job[p].billable
  <2>1. job'[p] = IF job[p].state \in {"none", "waiting"} THEN job[p]
                  ELSE [job[p] EXCEPT !.state = "waiting", !.meta = NoMeta, !.isGenerating = FALSE]
    BY DEF WorkerCrash
  <2>2. CASE job[p].state \in {"none", "waiting"}
    BY <2>1, <2>2, JobTypedNow
  <2>3. CASE job[p].state \notin {"none", "waiting"}
    <3>1. PICK j : j = [job[p] EXCEPT !.state = "waiting", !.meta = NoMeta, !.isGenerating = FALSE]
      OBVIOUS
    <3>2. j \in Jobs /\ j.state = "waiting" /\ j.ask = job[p].ask
          /\ j.billable = job[p].billable /\ j.tries = job[p].tries
      BY <3>1, JobTypedNow, NoMetaIs DEF Jobs
    <3>3. JobTyped(j)
      BY <2>3, <3>2, JobTypedNow DEF JobTyped
    <3> QED
      BY <2>1, <2>3, <3>1, <3>2, <3>3
  <2> QED
    BY <2>2, <2>3
<1>2. job' \in [Posts -> Jobs]
  BY <1>1 DEF JobTyped, WorkerCrash
<1>3. TickTyped(IdleTick) /\ Hands(IdleTick) = {} /\ IdleTick.pc = "idle"
  BY LimitsAssumption DEF TickTyped, TickRecords, IdleTick, Hands
<1>4. tick' \in [Ticks -> TickRecords]
  BY <1>3 DEF WorkerCrash, TickTyped
<1>5. \A t \in Ticks : TickTyped(tick'[t]) /\ Hands(tick'[t]) = {} /\ tick'[t].pc = "idle"
  <2>1. \A t \in Ticks : tick'[t] = IdleTick
    BY DEF WorkerCrash
  <2> QED
    BY <1>3, <2>1
<1> QED
  BY <1>1, <1>2, <1>4, <1>5 DEF WorkerCrash

-----------------------------------------------------------------------------
(* What a tick does.                                                       *)

LEMMA TickTypedNow ==
  ASSUME TypeInv, NEW t \in Ticks
  PROVE  tick[t] \in TickRecords /\ TickTyped(tick[t])
BY DEF TypeInv, TickTyped

LEMMA CandidateIs ==
  ASSUME TypeInv, NEW p \in Posts
  PROVE  /\ Candidate(p) \in Candidates
         /\ Candidate(p).post = p /\ Candidate(p).status = row[p].status /\ Candidate(p).meta = row[p].meta
BY RowTyped DEF Candidate, Candidates

\* What the three selections of a tick find.
LEMMA SweepRowsAre ==
  ASSUME TypeInv
  PROVE  /\ SweepRows \in SUBSET Candidates
         /\ \A c \in SweepRows :
              /\ c.post \in Posts /\ c.meta = row[c.post].meta /\ c.status = row[c.post].status
              /\ \/ row[c.post].status = "generation_failed"
                 \/ row[c.post].status = "generating" /\ row[c.post].aged
              /\ c.meta.sweeps < MaxSweeps /\ ~c.meta.banked
BY CandidateIs DEF SweepRows

LEMMA BankedRowsAre ==
  ASSUME TypeInv, NEW past \in BOOLEAN
  PROVE  /\ BankedRows(past) \in SUBSET Candidates
         /\ \A c \in BankedRows(past) :
              /\ c.post \in Posts /\ c.meta = row[c.post].meta
              /\ row[c.post].status = "generation_failed" /\ c.meta.banked
BY CandidateIs DEF BankedRows

LEMMA HeldIsCandidate ==
  ASSUME TypeInv, NEW t \in Ticks
  PROVE  \A c \in Hands(tick[t]) :
           c \in Candidates /\ c.post \in Posts /\ c.meta \in Meta
           /\ (tick[t].pc \in {"sweep", "stamp"} => c.meta.sweeps < MaxSweeps)
BY TickTypedNow DEF TickTyped, TickRecords, Hands, Candidates

\* A tick moves on without a row: at most it drops one from its list.
TickGoes(t, pc) ==
  TickAt(t) /\ tick'[t].pc = pc /\ tick'[t].at = {}

LEMMA TickStartsDoes ==
  ASSUME TypeInv, NEW t \in Ticks, TickStarts(t)
  PROVE  /\ \A r \in Requests : req[r].pc \in {"idle", "done"}
         /\ TickGoes(t, "sweep") /\ tick'[t].todo = SweepRows
         /\ UNCHANGED <<row, job, req, used, charged, swept, envVars>>
<1> DEFINE k == tick[t]
<1>1. k \in TickRecords /\ TickTyped(k) /\ k.pc = "idle"
  BY TickTypedNow DEF TickStarts
<1>2. k.at = {} /\ k.budget \in 0..Limit
  BY <1>1 DEF TickTyped, TickRecords
<1>3. PICK v : v = [k EXCEPT !.pc = "sweep", !.todo = SweepRows]
  OBVIOUS
<1>4. tick' = [tick EXCEPT ![t] = v]
  BY <1>3, Zenon DEF TickStarts
<1>5. SweepRows \in SUBSET Candidates /\ \A c \in SweepRows : c.meta.sweeps < MaxSweeps
  BY SweepRowsAre
<1>7. v \in TickRecords /\ v.pc = "sweep" /\ v.todo = SweepRows /\ v.at = {}
  BY <1>1, <1>2, <1>3, <1>5 DEF TickRecords
<1>8. TickTyped(v)
  BY <1>5, <1>7 DEF TickTyped, Hands
<1>6. TickGoes(t, "sweep") /\ tick'[t].todo = SweepRows
  BY <1>4, <1>7, <1>8, TickPut DEF TickGoes
<1> QED
  BY <1>6 DEF TickStarts

LEMMA SelectsDo ==
  ASSUME TypeInv, NEW t \in Ticks, RetireSelects(t) \/ ReleaseSelects(t)
  PROVE  /\ \E past \in BOOLEAN : tick'[t].todo = BankedRows(past)
         /\ TickGoes(t, "retire") \/ TickGoes(t, "release")
         /\ UNCHANGED <<row, job, req, used, charged, swept, envVars>>
<1> DEFINE k == tick[t]
<1>1. k \in TickRecords /\ k.at = {} /\ k.budget \in 0..Limit
  BY TickTypedNow DEF TickTyped, TickRecords, RetireSelects, ReleaseSelects, Settled
<1>2. Remaining \in 0..Limit
  BY LimitsAssumption DEF Remaining, IsCapReached, TypeInv
<1>3. ASSUME NEW pc \in {"retire", "release"}, NEW past \in BOOLEAN, NEW v,
             v \in TickRecords, v.pc = pc, v.todo = BankedRows(past), v.at = {},
             tick' = [tick EXCEPT ![t] = v]
      PROVE  TickGoes(t, pc) /\ tick'[t].todo = BankedRows(past)
  <2>1. TickTyped(v)
    BY <1>3 DEF TickTyped
  <2> QED
    BY <1>3, <2>1, TickPut DEF TickGoes
<1>4. BankedRows(TRUE) \in SUBSET Candidates /\ BankedRows(FALSE) \in SUBSET Candidates
  BY BankedRowsAre
<1>5. CASE RetireSelects(t)
  <2>1. PICK v : v = [k EXCEPT !.pc = "retire", !.todo = BankedRows(TRUE)]
    OBVIOUS
  <2>2. v \in TickRecords /\ v.pc = "retire" /\ v.todo = BankedRows(TRUE) /\ v.at = {}
    BY <1>1, <1>4, <2>1 DEF TickRecords
  <2>3. tick' = [tick EXCEPT ![t] = v]
    BY <1>5, <2>1, Zenon DEF RetireSelects
  <2>4. TickGoes(t, "retire") /\ tick'[t].todo = BankedRows(TRUE)
    BY <1>3, <2>2, <2>3
  <2> QED
    BY <1>5, <2>4 DEF RetireSelects
<1>6. CASE ReleaseSelects(t)
  <2>1. PICK v : v = [k EXCEPT !.pc = "release", !.todo = BankedRows(FALSE), !.budget = Remaining]
    OBVIOUS
  <2>2. v \in TickRecords /\ v.pc = "release" /\ v.todo = BankedRows(FALSE) /\ v.at = {}
    BY <1>1, <1>2, <1>4, <2>1 DEF TickRecords
  <2>3. tick' = [tick EXCEPT ![t] = v]
    BY <1>6, <2>1, Zenon DEF ReleaseSelects
  <2>4. TickGoes(t, "release") /\ tick'[t].todo = BankedRows(FALSE)
    BY <1>3, <2>2, <2>3
  <2> QED
    BY <1>6, <2>4 DEF ReleaseSelects
<1> QED
  BY <1>5, <1>6

\* A row is passed over.
LEMMA PassesOverDoes ==
  ASSUME TypeInv, NEW t \in Ticks, SweepSkips(t) \/ ReleaseHolds(t) \/ TickAddError(t)
  PROVE  /\ TickGoes(t, tick[t].pc) /\ tick'[t].todo \subseteq tick[t].todo
         /\ tick[t].pc \in {"sweep", "release"}
         /\ crashes' + refusals' <= MaxFaults /\ crashes' = crashes /\ refusals' \in Nat
         /\ UNCHANGED <<row, job, req, used, charged, swept>>
<1> DEFINE k == tick[t]
<1>1. k \in TickRecords /\ TickTyped(k) /\ k.pc \in {"sweep", "release"}
  BY TickTypedNow DEF SweepSkips, ReleaseHolds, TickAddError
<1>2. k.at = {} /\ k.budget \in 0..Limit
  BY <1>1 DEF TickTyped, TickRecords
<1>3. PICK c \in k.todo : tick' = [tick EXCEPT ![t].todo = @ \ {c}]
  BY DEF SweepSkips, ReleaseHolds, TickAddError
<1>a. PICK v : v = [k EXCEPT !.todo = @ \ {c}]
  OBVIOUS
<1>4. tick' = [tick EXCEPT ![t] = v]
  BY <1>3, <1>a, Zenon
<1>5. v \in TickRecords /\ v.pc = k.pc /\ v.todo = k.todo \ {c} /\ v.at = {}
  BY <1>1, <1>2, <1>a DEF TickRecords
<1>b. TickTyped(v)
  BY <1>1, <1>2, <1>5 DEF TickTyped, Hands
<1>6. TickGoes(t, k.pc) /\ tick'[t].todo = k.todo \ {c}
  BY <1>4, <1>5, <1>b, TickPut DEF TickGoes
<1>7. crashes' + refusals' <= MaxFaults /\ crashes' = crashes /\ refusals' \in Nat
  <2>1. crashes' = crashes /\ (refusals' = refusals \/ (Fault /\ refusals' = refusals + 1))
    BY DEF SweepSkips, ReleaseHolds, TickAddError, envVars
  <2>2. crashes \in Nat /\ refusals \in Nat /\ crashes + refusals <= MaxFaults
    BY DEF TypeInv
  <2> QED
    BY <2>1, <2>2, LimitsAssumption DEF Fault
<1> QED
  BY <1>1, <1>6, <1>7 DEF SweepSkips, ReleaseHolds, TickAddError, k

LEMMA TickEndsDoes ==
  ASSUME TypeInv, NEW t \in Ticks, TickEnds(t)
  PROVE  /\ TickGoes(t, "idle") /\ tick'[t].todo = {}
         /\ UNCHANGED <<row, job, req, used, charged, swept, envVars>>
<1>1. TickTyped(IdleTick) /\ IdleTick.pc = "idle" /\ IdleTick.todo = {} /\ IdleTick.at = {}
  BY LimitsAssumption DEF TickTyped, TickRecords, IdleTick, Hands
<1> QED
  BY <1>1, TickPut DEF TickEnds, TickGoes

LEMMA InstructionIs ==
  ASSUME TypeInv, NEW c \in Candidates
  PROVE  InstructionFor(c) \in Asks /\ BillableForPost(c.post) \in BOOLEAN
BY RowTyped DEF InstructionFor, BillableForPost, Candidates, Meta, Asks, Rows

\* A tick adds a job and keeps the row in hand for its second statement.
LEMMA AddsDo ==
  ASSUME TypeInv, NEW t \in Ticks, SweepAdds(t) \/ ReleaseAdds(t)
  PROVE  \E c \in tick[t].todo :
         /\ ~Busy(c.post) /\ JobAt(c.post)
         /\ job'[c.post] = Queued(InstructionFor(c), BillableForPost(c.post))
         /\ TickAt(t) /\ tick'[t].todo = tick[t].todo \ {c} /\ tick'[t].at = {c}
         /\ \/ /\ tick[t].pc = "sweep" /\ tick'[t].pc = "stamp"
               /\ swept' \in [Posts -> Nat] /\ swept'[c.post] = swept[c.post] + 1
               /\ \A p \in Posts \ {c.post} : swept'[p] = swept[p]
            \/ /\ tick[t].pc = "release" /\ tick'[t].pc = "unflag" /\ UNCHANGED swept
         /\ UNCHANGED <<row, req, used, charged, envVars>>
<1> DEFINE k == tick[t]
<1>1. k \in TickRecords /\ TickTyped(k) /\ k.pc \in {"sweep", "release"}
  BY TickTypedNow DEF SweepAdds, ReleaseAdds
<1>2. k.todo \in SUBSET Candidates /\ k.budget \in 0..Limit
  BY <1>1 DEF TickRecords
<1>3. PICK c \in k.todo, pc \in {"stamp", "unflag"} :
        /\ ~Busy(c.post)
        /\ job' = [job EXCEPT ![c.post] = Queued(InstructionFor(c), BillableForPost(c.post))]
        /\ tick' = [tick EXCEPT ![t] = [@ EXCEPT !.pc = pc, !.todo = k.todo \ {c}, !.at = {c}]]
        /\ \/ pc = "stamp" /\ k.pc = "sweep" /\ swept' = [swept EXCEPT ![c.post] = @ + 1]
           \/ pc = "unflag" /\ k.pc = "release" /\ k.budget > 0 /\ UNCHANGED swept
  <2>1. CASE SweepAdds(t)
    <3>1. k.pc = "sweep"
      BY <2>1 DEF SweepAdds
    <3>2. PICK c \in k.todo :
            /\ ~Busy(c.post)
            /\ job' = [job EXCEPT ![c.post] = Queued(InstructionFor(c), BillableForPost(c.post))]
            /\ swept' = [swept EXCEPT ![c.post] = @ + 1]
            /\ tick' = [tick EXCEPT ![t] = [@ EXCEPT !.pc = "stamp", !.todo = k.todo \ {c}, !.at = {c}]]
      BY <2>1, Zenon DEF SweepAdds
    <3> QED
      BY <3>1, <3>2, Zenon
  <2>2. CASE ReleaseAdds(t)
    <3>1. k.pc = "release" /\ k.budget > 0 /\ UNCHANGED swept
      BY <2>2 DEF ReleaseAdds
    <3>2. PICK c \in k.todo :
            /\ ~Busy(c.post)
            /\ job' = [job EXCEPT ![c.post] = Queued(InstructionFor(c), BillableForPost(c.post))]
            /\ tick' = [tick EXCEPT ![t] = [@ EXCEPT !.pc = "unflag", !.todo = k.todo \ {c}, !.at = {c}]]
      BY <2>2, Zenon DEF ReleaseAdds
    <3> QED
      BY <3>1, <3>2, Zenon
  <2> QED
    BY <2>1, <2>2
<1>4. c \in Candidates /\ c.post \in Posts
  BY <1>2 DEF Candidates
<1>5. JobAt(c.post) /\ job'[c.post] = Queued(InstructionFor(c), BillableForPost(c.post))
  <2>1. JobTyped(Queued(InstructionFor(c), BillableForPost(c.post)))
    BY <1>4, InstructionIs, QueuedIs
  <2> QED
    BY <1>3, <1>4, <2>1, JobPut
<1>6. PICK v : v = [k EXCEPT !.pc = pc, !.todo = k.todo \ {c}, !.at = {c}]
  OBVIOUS
<1>a. tick' = [tick EXCEPT ![t] = v]
  BY <1>3, <1>6, Zenon
<1>b. v \in TickRecords /\ v.pc = pc /\ v.todo = k.todo \ {c} /\ v.at = {c} /\ v.budget = k.budget
  BY <1>1, <1>2, <1>6 DEF TickRecords
<1>7. TickTyped(v)
  BY <1>1, <1>3, <1>b DEF TickTyped, Hands
<1>8. TickAt(t) /\ tick'[t].pc = pc /\ tick'[t].todo = k.todo \ {c} /\ tick'[t].at = {c}
  BY <1>a, <1>b, <1>7, TickPut
<1> HIDE DEF k
<1>9. \/ /\ pc = "stamp" /\ k.pc = "sweep"
         /\ swept' \in [Posts -> Nat] /\ swept'[c.post] = swept[c.post] + 1
         /\ \A p \in Posts \ {c.post} : swept'[p] = swept[p]
      \/ pc = "unflag" /\ k.pc = "release" /\ UNCHANGED swept
  BY <1>3, <1>4 DEF TypeInv
<1>10. UNCHANGED <<row, req, used, charged, envVars>>
  BY DEF SweepAdds, ReleaseAdds
<1> QED
  BY <1>3, <1>5, <1>8, <1>9, <1>10 DEF k

LEMMA SweepStampsDoes ==
  ASSUME TypeInv, NEW t \in Ticks, SweepStamps(t)
  PROVE  \E c \in tick[t].at :
         /\ tick[t].pc = "stamp"
         /\ \/ UNCHANGED row /\ row[c.post].status \notin {"generation_failed", "generating"}
            \/ \E m \in Meta :
                 /\ row[c.post].status \in {"generation_failed", "generating"}
                 /\ RowBecomes(c.post, "generating", m)
                 /\ m.pending = c.meta.pending /\ m.banked = c.meta.banked
                 /\ m.sweeps = c.meta.sweeps + 1 /\ m.ungrounded = c.meta.ungrounded
         /\ TickGoes(t, "sweep") /\ tick'[t].todo = tick[t].todo
         /\ UNCHANGED <<job, req, used, charged, swept, envVars>>
<1> DEFINE k == tick[t]
<1>1. k \in TickRecords /\ TickTyped(k) /\ k.pc = "stamp"
  BY TickTypedNow DEF SweepStamps
<1>2. PICK c \in k.at :
        /\ row' = IF row[c.post].status \in {"generation_failed", "generating"}
                  THEN [row EXCEPT ![c.post] = [Written(@) EXCEPT !.status = "generating",
                          !.meta = [c.meta EXCEPT !.sweeps = @ + 1]]]
                  ELSE row
        /\ tick' = [tick EXCEPT ![t] = [@ EXCEPT !.pc = "sweep", !.at = {}]]
  BY Zenon DEF SweepStamps
<1>3. c \in Hands(k) /\ c.post \in Posts /\ c.meta \in Meta /\ c.meta.sweeps < MaxSweeps
  BY <1>1, HeldIsCandidate DEF Hands
<1>4. PICK m : m = [c.meta EXCEPT !.sweeps = @ + 1]
  OBVIOUS
<1>5. m \in Meta /\ m.pending = c.meta.pending /\ m.banked = c.meta.banked
      /\ m.sweeps = c.meta.sweeps + 1 /\ m.ungrounded = c.meta.ungrounded
  <2>1. c.meta.sweeps + 1 \in 0..MaxSweeps
    BY <1>3, LimitsAssumption DEF Meta
  <2> QED
    BY <1>3, <1>4, <2>1 DEF Meta
<1>6. \/ UNCHANGED row /\ row[c.post].status \notin {"generation_failed", "generating"}
      \/ /\ row[c.post].status \in {"generation_failed", "generating"}
         /\ row' = [row EXCEPT ![c.post] = [Written(@) EXCEPT !.status = "generating", !.meta = m]]
  BY <1>2, <1>4, Zenon
<1>7. \/ UNCHANGED row /\ row[c.post].status \notin {"generation_failed", "generating"}
      \/ /\ row[c.post].status \in {"generation_failed", "generating"}
         /\ RowBecomes(c.post, "generating", m)
  BY <1>3, <1>5, <1>6, RowWrites DEF Statuses
<1>8. PICK v : v = [k EXCEPT !.pc = "sweep", !.at = {}]
  OBVIOUS
<1>9. v \in TickRecords /\ v.pc = "sweep" /\ v.todo = k.todo /\ v.at = {}
  BY <1>1, <1>8 DEF TickRecords
<1>a. TickTyped(v)
  BY <1>1, <1>9 DEF TickTyped, Hands
<1>b. tick' = [tick EXCEPT ![t] = v]
  BY <1>2, <1>8, Zenon
<1>10. TickGoes(t, "sweep") /\ tick'[t].todo = k.todo
  BY <1>9, <1>a, <1>b, TickPut DEF TickGoes
<1> QED
  BY <1>1, <1>5, <1>7, <1>10 DEF SweepStamps

LEMMA RetiresDoes ==
  ASSUME TypeInv, NEW t \in Ticks, Retires(t)
  PROVE  \E c \in tick[t].todo :
         /\ tick[t].pc = "retire"
         /\ \/ UNCHANGED row
            \/ \E m \in Meta :
                 /\ row[c.post].status = "generation_failed"
                 /\ RowBecomes(c.post, "generation_expired", m)
                 /\ m.pending = c.meta.pending /\ ~m.banked
                 /\ m.sweeps = c.meta.sweeps /\ m.ungrounded = c.meta.ungrounded
         /\ TickGoes(t, "retire") /\ tick'[t].todo = tick[t].todo \ {c}
         /\ UNCHANGED <<job, req, used, charged, swept, envVars>>
<1> DEFINE k == tick[t]
<1>1. k \in TickRecords /\ TickTyped(k) /\ k.pc = "retire"
  BY TickTypedNow DEF Retires
<1>2. PICK c \in k.todo :
        /\ row' = IF row[c.post].status = "generation_failed"
                  THEN [row EXCEPT ![c.post] = [Written(@) EXCEPT !.status = "generation_expired",
                          !.meta = [c.meta EXCEPT !.banked = FALSE, !.error = "deterministic"]]]
                  ELSE row
        /\ tick' = [tick EXCEPT ![t].todo = @ \ {c}]
  BY Zenon DEF Retires
<1>3. c.post \in Posts /\ c.meta \in Meta
  BY HeldIsCandidate DEF Hands
<1>4. PICK m : m = [c.meta EXCEPT !.banked = FALSE, !.error = "deterministic"]
  OBVIOUS
<1>5. m \in Meta /\ m.pending = c.meta.pending /\ ~m.banked
      /\ m.sweeps = c.meta.sweeps /\ m.ungrounded = c.meta.ungrounded
  BY <1>3, <1>4 DEF Meta
<1>6. \/ UNCHANGED row
      \/ /\ row[c.post].status = "generation_failed"
         /\ row' = [row EXCEPT ![c.post] = [Written(@) EXCEPT !.status = "generation_expired", !.meta = m]]
  BY <1>2, <1>4, Zenon
<1>d. "generation_expired" \in Statuses
  BY DEF Statuses
<1>e. ASSUME row' = [row EXCEPT ![c.post] = [Written(@) EXCEPT !.status = "generation_expired", !.meta = m]]
      PROVE  RowBecomes(c.post, "generation_expired", m)
  BY <1>3, <1>5, <1>d, <1>e, RowWrites
<1>7. \/ UNCHANGED row
      \/ row[c.post].status = "generation_failed" /\ RowBecomes(c.post, "generation_expired", m)
  BY <1>6, <1>e
<1>8. k.at = {} /\ k.budget \in 0..Limit /\ k.todo \ {c} \in SUBSET Candidates
  BY <1>1 DEF TickTyped, TickRecords
<1>9. PICK v : v = [k EXCEPT !.todo = @ \ {c}]
  OBVIOUS
<1>a. v \in TickRecords /\ v.pc = "retire" /\ v.todo = k.todo \ {c} /\ v.at = {}
  BY <1>1, <1>8, <1>9 DEF TickRecords
<1>b. TickTyped(v)
  BY <1>a DEF TickTyped
<1>c. tick' = [tick EXCEPT ![t] = v]
  BY <1>2, <1>9, Zenon
<1>10. TickGoes(t, "retire") /\ tick'[t].todo = k.todo \ {c}
  BY <1>a, <1>b, <1>c, TickPut DEF TickGoes
<1> QED
  BY <1>1, <1>5, <1>7, <1>10 DEF Retires

LEMMA ReleaseUnflagsDoes ==
  ASSUME TypeInv, NEW t \in Ticks, ReleaseUnflags(t)
  PROVE  \E c \in tick[t].at :
         /\ tick[t].pc = "unflag"
         /\ \/ UNCHANGED row
            \/ \E m \in Meta :
                 /\ row[c.post].status = "generation_failed"
                 /\ RowBecomes(c.post, "generating", m)
                 /\ m.pending = c.meta.pending /\ ~m.banked
                 /\ m.sweeps = c.meta.sweeps /\ m.ungrounded = c.meta.ungrounded
         /\ TickGoes(t, "release") /\ tick'[t].todo = tick[t].todo
         /\ UNCHANGED <<job, req, used, charged, swept, envVars>>
<1> DEFINE k == tick[t]
<1>1. k \in TickRecords /\ TickTyped(k) /\ k.pc = "unflag"
  BY TickTypedNow DEF ReleaseUnflags
<1>2. PICK c \in k.at :
        /\ row' = IF row[c.post].status = "generation_failed"
                  THEN [row EXCEPT ![c.post] = [Written(@) EXCEPT !.status = "generating",
                          !.meta = [c.meta EXCEPT !.banked = FALSE, !.error = "none"]]]
                  ELSE row
        /\ tick' = [tick EXCEPT ![t] = [@ EXCEPT !.pc = "release", !.at = {}, !.budget = tick[t].budget - 1]]
  BY Zenon DEF ReleaseUnflags
<1>3. c.post \in Posts /\ c.meta \in Meta
  BY HeldIsCandidate DEF Hands
<1>4. PICK m : m = [c.meta EXCEPT !.banked = FALSE, !.error = "none"]
  OBVIOUS
<1>5. m \in Meta /\ m.pending = c.meta.pending /\ ~m.banked
      /\ m.sweeps = c.meta.sweeps /\ m.ungrounded = c.meta.ungrounded
  BY <1>3, <1>4 DEF Meta
<1>6. \/ UNCHANGED row
      \/ /\ row[c.post].status = "generation_failed"
         /\ row' = [row EXCEPT ![c.post] = [Written(@) EXCEPT !.status = "generating", !.meta = m]]
  BY <1>2, <1>4, Zenon
<1>d. "generating" \in Statuses
  BY DEF Statuses
<1>e. ASSUME row' = [row EXCEPT ![c.post] = [Written(@) EXCEPT !.status = "generating", !.meta = m]]
      PROVE  RowBecomes(c.post, "generating", m)
  BY <1>3, <1>5, <1>d, <1>e, RowWrites
<1>7. \/ UNCHANGED row
      \/ row[c.post].status = "generation_failed" /\ RowBecomes(c.post, "generating", m)
  BY <1>6, <1>e
<1>8. k.budget - 1 \in 0..Limit /\ k.todo \in SUBSET Candidates
  BY <1>1, LimitsAssumption DEF TickTyped, TickRecords
<1>9. PICK v : v = [k EXCEPT !.pc = "release", !.at = {}, !.budget = tick[t].budget - 1]
  OBVIOUS
<1>a. v \in TickRecords /\ v.pc = "release" /\ v.todo = k.todo /\ v.at = {}
  BY <1>1, <1>8, <1>9 DEF TickRecords
<1>b. TickTyped(v)
  BY <1>a DEF TickTyped
<1>c. tick' = [tick EXCEPT ![t] = v]
  BY <1>2, <1>9, Zenon
<1>10. TickGoes(t, "release") /\ tick'[t].todo = k.todo
  BY <1>a, <1>b, <1>c, TickPut DEF TickGoes
<1> QED
  BY <1>1, <1>5, <1>7, <1>10 DEF ReleaseUnflags

LEMMA RequestTypes ==
  ASSUME TypeInv, NEW r \in Requests,
         RequestStep(r) \/ AppCrash(r) \/ \E p \in Posts : RequestBegins(r, p)
  PROVE  TypeInv'
<1>1. /\ used \in Nat /\ charged \in [Asks -> Nat] /\ swept \in [Posts -> Nat]
      /\ crashes \in Nat /\ refusals \in Nat /\ crashes + refusals <= MaxFaults
      /\ req[r].post \in Posts /\ MaxFaults \in Nat
  BY ReqTyped, LimitsAssumption DEF TypeInv
<1>2. ASSUME NEW p \in Posts, RequestBegins(r, p) PROVE TypeInv'
  <2>1. CASE AskForAdd(r, p)
    BY <1>1, <2>1, AddDoes, TypesStay DEF Begins
  <2>2. CASE AskWithSubject(r, p)
    BY <1>1, <2>2, SubjectDoes, TypesStay DEF Begins
  <2>3. CASE AskForRewrite(r, p)
    BY <1>1, <2>3, RewriteDoes, TypesStay DEF Begins
  <2>4. CASE PatchReads(r, p)
    BY <1>1, <2>4, PatchReadsDoes, TypesStay DEF Begins
  <2> QED
    BY <1>2, <2>1, <2>2, <2>3, <2>4 DEF RequestBegins
<1>3. CASE Check(r)
  BY <1>1, <1>3, CheckDoes, TypesStay DEF ReqGoes
<1>4. CASE Bank(r)
  BY <1>1, <1>4, BankDoes, TypesStay DEF ReqGoes, RowBecomes
<1>5. CASE Mark(r)
  BY <1>1, <1>5, MarkDoes, TypesStay DEF ReqGoes, RowBecomes
<1>6. CASE Enqueue(r)
  BY <1>1, <1>6, EnqueueDoes, TypesStay DEF ReqGoes
<1>7. CASE EnqueueError(r)
  BY <1>1, <1>7, EnqueueErrorDoes, TypesStay DEF ReqGoes, Fault
<1>8. CASE Refused(r)
  BY <1>1, <1>8, RefusedDoes, TypesStay DEF ReqGoes, RowBecomes
<1>9. CASE PatchWrites(r)
  BY <1>1, <1>9, PatchWritesDoes, TypesStay DEF ReqGoes, RowBecomes
<1>10. CASE AppCrash(r)
  BY <1>1, <1>10, AppCrashDoes, TypesStay DEF ReqGoes, Fault
<1> QED
  BY <1>2, <1>3, <1>4, <1>5, <1>6, <1>7, <1>8, <1>9, <1>10 DEF RequestStep

LEMMA PostTypes ==
  ASSUME TypeInv, NEW p \in Posts,
         JobStep(p) \/ Remove(p) \/ Revert(p) \/ Ages(p) \/ DayPasses(p)
  PROVE  TypeInv'
<1>1. /\ used \in Nat /\ charged \in [Asks -> Nat] /\ swept \in [Posts -> Nat]
      /\ crashes \in Nat /\ refusals \in Nat /\ crashes + refusals <= MaxFaults
  BY DEF TypeInv
<1>2. CASE Remove(p) \/ Revert(p) \/ Ages(p) \/ DayPasses(p)
  BY <1>1, <1>2, RemoveDoes, RevertDoes, AgesDoes, DayPassesDoes, TypesStay DEF RowSame
<1>3. CASE JobStarts(p)
  BY <1>1, <1>3, JobStartsDoes, TypesStay DEF JobGoes
<1>4. CASE JobWrites(p)
  BY <1>1, <1>4, JobWritesDoes, TypesStay DEF JobGoes, RowSame
<1>5. CASE JobBills(p)
  BY <1>1, <1>5, JobBillsDoes, TypesStay DEF JobGoes
<1>6. CASE JobThrows(p)
  BY <1>1, <1>6, JobThrowsDoes, TypesStay DEF JobGoes, RowBecomes
<1>7. CASE JobFinishes(p)
  BY <1>1, <1>7, JobFinishesDoes, TypesStay
<1> QED
  BY <1>2, <1>3, <1>4, <1>5, <1>6, <1>7 DEF JobStep

LEMMA TickTypes ==
  ASSUME TypeInv, NEW t \in Ticks, TickStep(t)
  PROVE  TypeInv'
<1>1. /\ used \in Nat /\ charged \in [Asks -> Nat] /\ swept \in [Posts -> Nat]
      /\ crashes \in Nat /\ refusals \in Nat /\ crashes + refusals <= MaxFaults
      /\ \A c \in Hands(tick[t]) : c.post \in Posts
  BY HeldIsCandidate DEF TypeInv
<1>2. CASE TickStarts(t)
  BY <1>1, <1>2, TickStartsDoes, TypesStay DEF TickGoes
<1>3. CASE RetireSelects(t) \/ ReleaseSelects(t)
  BY <1>1, <1>3, SelectsDo, TypesStay DEF TickGoes
<1>4. CASE SweepSkips(t) \/ ReleaseHolds(t) \/ TickAddError(t)
  BY <1>1, <1>4, PassesOverDoes, TypesStay DEF TickGoes
<1>5. CASE SweepAdds(t) \/ ReleaseAdds(t)
  BY <1>1, <1>5, AddsDo, TypesStay DEF Hands
<1>6. CASE SweepStamps(t)
  BY <1>1, <1>6, SweepStampsDoes, TypesStay DEF TickGoes, RowBecomes, Hands
<1>7. CASE Retires(t)
  BY <1>1, <1>7, RetiresDoes, TypesStay DEF TickGoes, RowBecomes, Hands
<1>8. CASE ReleaseUnflags(t)
  BY <1>1, <1>8, ReleaseUnflagsDoes, TypesStay DEF TickGoes, RowBecomes, Hands
<1>9. CASE TickEnds(t)
  BY <1>1, <1>9, TickEndsDoes, TypesStay DEF TickGoes
<1> QED
  BY <1>2, <1>3, <1>4, <1>5, <1>6, <1>7, <1>8, <1>9 DEF TickStep

LEMMA TypeInvKept == TypeInv /\ [Next]_vars => TypeInv'
<1> SUFFICES ASSUME TypeInv, [Next]_vars PROVE TypeInv'
  OBVIOUS
<1>1. CASE UNCHANGED vars
  BY <1>1 DEF TypeInv, TickTyped, JobTyped, Hands
<1>2. CASE WorkerCrash
  <2>1. crashes' \in Nat /\ refusals' \in Nat /\ crashes' + refusals' <= MaxFaults
    BY <1>2, WorkerCrashDoes, LimitsAssumption DEF TypeInv, Fault
  <2>2. (tick \in [Ticks -> TickRecords] /\ \A t \in Ticks : TickTyped(tick[t]))'
    BY <1>2, WorkerCrashDoes DEF TickTyped
  <2>3. (job \in [Posts -> Jobs] /\ \A p \in Posts : JobTyped(job[p]))'
    BY <1>2, WorkerCrashDoes DEF JobTyped
  <2> QED
    BY <1>2, <2>1, <2>2, <2>3, WorkerCrashDoes DEF TypeInv
<1>3. CASE MonthTurns
  BY <1>3 DEF MonthTurns, TypeInv, TickTyped, JobTyped, Hands
<1> QED
  BY <1>1, <1>2, <1>3, RequestTypes, PostTypes, TickTypes DEF Next

\* Rows, requests, jobs and ticks keep their types, whoever writes source_meta
\* whole and whatever dies between a read and the write that rests on it.
THEOREM TypeCorrect == Spec => []TypeOK
<1>1. TypeInv /\ [Next]_vars => TypeInv'
  BY TypeInvKept
<1> QED
  BY <1>1, TypeInvInit, TypeInvTypes, PTL DEF Spec

-----------------------------------------------------------------------------
(* Who asked.  A post that is not the plan's own was added by one request, *)
(* and every copy of its metadata that may still be written names it.      *)

There(p) == row[p].status # "absent"
InFlight(r) == req[r].pc \notin {"idle", "done"}
Asking(r) == req[r].pc # "idle" /\ req[r].kind \in {"generate", "rewrite"}

\* A copy of a post's metadata: the adder is named, no question is open, and the post
\* is banked only once the adder has gone.
CopyNamed(p, m) ==
  ~row[p].system => /\ m.pending = row[p].meta.pending /\ ~m.ungrounded
                    /\ m.banked => req[m.pending].pc = "done"

ReqNamed(r) ==
  LET q == req[r] IN
  /\ q.pc # "idle" => There(q.post) /\ (q.kind \in {"generate", "rewrite"} => q.ask = r)
  /\ InFlight(r) => (q.pc = "patch" <=> q.kind \notin {"generate", "rewrite"})
  /\ q.pc \in {"bank", "mark", "refused"} => q.kind = "generate"
  /\ q.pc = "patch" => CopyNamed(q.post, q.meta)
  /\ q.pc # "idle" /\ q.kind = "generate" /\ ~row[q.post].system => row[q.post].meta.pending = r
  /\ q.pc \in {"bank", "mark"} /\ ~row[q.post].system => ~q.meta.ungrounded /\ ~q.meta.banked

RowNamed(p) ==
  LET a == row[p].meta.pending IN
  /\ ~There(p) => ~row[p].system /\ ~row[p].meta.ungrounded
  /\ There(p) /\ ~row[p].system =>
       a \in Requests /\ Asking(a) /\ req[a].post = p /\ CopyNamed(p, row[p].meta)

JobNamed(p) ==
  LET j == job[p] IN
  /\ j.state # "none" => There(p)
  /\ j.state # "none" /\ j.billable =>
       j.ask \in Requests /\ Asking(j.ask) /\ req[j.ask].pc = "done" /\ req[j.ask].post = p
  /\ j.state = "active" => CopyNamed(p, j.meta)

CandNamed(c) ==
  /\ There(c.post) /\ CopyNamed(c.post, c.meta)
  /\ ~row[c.post].system => req[c.meta.pending].pc = "done"

NameInv ==
  /\ \A r \in Requests : ReqNamed(r)
  /\ \A p \in Posts : RowNamed(p) /\ JobNamed(p)
  /\ \A t \in Ticks : \A c \in Hands(tick[t]) : CandNamed(c)

LEMMA NameInvInit == Init => NameInv
<1> SUFFICES ASSUME Init PROVE NameInv
  OBVIOUS
<1>1. PICK how \in [Posts -> {"absent", "generating", "declined", "finished"}] :
        /\ row = [p \in Posts |->
             [status |-> IF how[p] \in {"absent", "generating"} THEN how[p] ELSE "new",
              live |-> TRUE, past |-> FALSE, aged |-> FALSE, system |-> how[p] # "absent",
              meta |-> [NoMeta EXCEPT !.ungrounded = how[p] = "declined"]]]
        /\ job = [p \in Posts |-> IF how[p] = "generating" THEN Queued("plan", FALSE) ELSE NoJob]
  BY DEF Init
<1>2. ASSUME NEW p \in Posts PROVE RowNamed(p) /\ JobNamed(p)
  <2>1. /\ row[p].status # "absent" <=> row[p].system
        /\ row[p].meta.ungrounded => how[p] = "declined"
        /\ how[p] = "declined" => row[p].status # "absent"
    BY <1>1 DEF NoMeta
  <2>2. job[p].state # "active" /\ ~job[p].billable
        /\ (job[p].state # "none" => row[p].status # "absent")
    BY <1>1 DEF Queued, NoJob
  <2> QED
    BY <2>1, <2>2 DEF RowNamed, JobNamed, There
<1>3. \A r \in Requests : req[r].pc = "idle"
  BY DEF Init
<1>4. \A t \in Ticks : Hands(tick[t]) = {}
  BY DEF Init, Hands, IdleTick
<1> QED
  BY <1>2, <1>3, <1>4 DEF NameInv, ReqNamed, InFlight

\* Nobody turns a post into the plan's own or back, no row and no request disappears,
\* and the adder of a post stays its adder.
RowsSteady ==
  \A p \in Posts :
    /\ row'[p].system = row[p].system /\ (There(p) => There(p)')
    /\ There(p) /\ ~row[p].system => row'[p].meta.pending = row[p].meta.pending

ReqsSteady ==
  \A r \in Requests :
    /\ req[r].pc # "idle" => /\ req'[r].pc # "idle" /\ req'[r].kind = req[r].kind
                             /\ req'[r].post = req[r].post /\ req'[r].ask = req[r].ask
    /\ req[r].pc = "done" => req'[r].pc = "done"

Steady == RowsSteady /\ ReqsSteady

LEMMA CopyStays ==
  ASSUME NameInv, Steady, NEW p \in Posts, There(p)
  PROVE  \A m : CopyNamed(p, m) => CopyNamed(p, m)'
BY DEF Steady, RowsSteady, ReqsSteady, CopyNamed, NameInv, RowNamed

\* What a step leaves alone keeps its facts.
LEMMA SteadyKeeps ==
  ASSUME TypeInv, NameInv, Steady
  PROVE  /\ \A r \in Requests : req'[r] = req[r] => ReqNamed(r)'
         /\ \A p \in Posts : row'[p] = row[p] => RowNamed(p)'
         /\ \A p \in Posts : job'[p] = job[p] => JobNamed(p)'
         /\ \A t \in Ticks : \A c \in Hands(tick[t]) : CandNamed(c)'
<1>1. ASSUME NEW r \in Requests, req'[r] = req[r] PROVE ReqNamed(r)'
  <2>1. ReqNamed(r) /\ req[r].post \in Posts
    BY ReqTyped DEF NameInv
  <2>2. req[r].pc = "patch" => CopyNamed(req[r].post, req[r].meta)'
    BY <1>1, <2>1, CopyStays DEF ReqNamed, CopyNamed
  <2> QED
    BY <1>1, <2>1, <2>2 DEF ReqNamed, InFlight, Steady, RowsSteady, ReqsSteady, CopyNamed, There
<1>2. ASSUME NEW p \in Posts, row'[p] = row[p] PROVE RowNamed(p)'
  <2>1. RowNamed(p)
    BY DEF NameInv
  <2>2. There(p) /\ ~row[p].system => CopyNamed(p, row[p].meta)'
    BY <1>2, <2>1, CopyStays DEF RowNamed, CopyNamed
  <2> QED
    BY <1>2, <2>1, <2>2 DEF RowNamed, Asking, Steady, RowsSteady, ReqsSteady, CopyNamed, There
<1>3. ASSUME NEW p \in Posts, job'[p] = job[p] PROVE JobNamed(p)'
  <2>1. JobNamed(p)
    BY DEF NameInv
  <2>2. job[p].state = "active" => CopyNamed(p, job[p].meta)'
    BY <1>3, <2>1, CopyStays DEF JobNamed, CopyNamed
  <2> QED
    BY <1>3, <2>1, <2>2 DEF JobNamed, Asking, Steady, RowsSteady, ReqsSteady, CopyNamed, There
<1>4. ASSUME NEW t \in Ticks, NEW c \in Hands(tick[t]) PROVE CandNamed(c)'
  <2>1. CandNamed(c) /\ c.post \in Posts
    BY HeldIsCandidate DEF NameInv
  <2>2. CopyNamed(c.post, c.meta)'
    BY <2>1, CopyStays DEF CandNamed
  <2>3. ~row[c.post].system => c.meta.pending \in Requests
    BY <2>1 DEF CandNamed, CopyNamed, NameInv, RowNamed
  <2> QED
    BY <2>1, <2>2, <2>3 DEF CandNamed, Steady, ReqsSteady, RowsSteady
<1> QED
  BY <1>1, <1>2, <1>3, <1>4

\* The places a step changes are named afresh; all others stay.
LEMMA NamesStay ==
  ASSUME TypeInv, NameInv, Steady,
         \A r \in Requests : req'[r] = req[r] \/ ReqNamed(r)',
         \A p \in Posts : (row'[p] = row[p] \/ RowNamed(p)') /\ (job'[p] = job[p] \/ JobNamed(p)'),
         \A t \in Ticks : \A c \in Hands(tick'[t]) :
           CandNamed(c)' \/ \E u \in Ticks : c \in Hands(tick[u])
  PROVE  NameInv'
<1>1. \A t \in Ticks : \A c \in Hands(tick'[t]) : CandNamed(c)'
  BY SteadyKeeps
<1>2. (\A t \in Ticks : \A c \in Hands(tick[t]) : CandNamed(c))'
  BY <1>1 DEF Hands
<1> QED
  BY <1>2, SteadyKeeps DEF NameInv

LEMMA StoresAlone ==
  /\ UNCHANGED row => RowsSteady
  /\ UNCHANGED req => ReqsSteady
BY DEF RowsSteady, ReqsSteady, There

LEMMA RowMoves ==
  ASSUME NEW p \in Posts, RowAt(p), There(p) => There(p)',
         There(p) /\ ~row[p].system => row'[p].meta.pending = row[p].meta.pending
  PROVE  RowsSteady
BY DEF RowAt, RowsSteady, There

LEMMA ReqMoves ==
  ASSUME NEW r \in Requests, NEW pc, InFlight(r), pc # "idle", ReqGoes(r, pc)
  PROVE  ReqsSteady
BY DEF ReqGoes, ReqAt, ReqsSteady, InFlight

LEMMA ReqStarts ==
  ASSUME NEW r \in Requests, NEW pc, NEW kind, NEW p, NEW ask, Begins(r, pc, kind, p, ask)
  PROVE  ReqsSteady
BY DEF Begins, ReqAt, ReqsSteady

\* A row that is written keeps its adder: what is left to show is its question and its flag.
LEMMA RowWritten ==
  ASSUME TypeInv, NameInv, Steady, NEW p \in Posts, There(p),
         ~row[p].system => /\ ~row'[p].meta.ungrounded
                           /\ row'[p].meta.banked => req'[row[p].meta.pending].pc = "done"
  PROVE  RowNamed(p)'
<1>1. RowNamed(p)
  BY DEF NameInv
<1> QED
  BY <1>1 DEF RowNamed, CopyNamed, Steady, RowsSteady, ReqsSteady, Asking, There

LEMMA BeginNames ==
  ASSUME TypeInv, NameInv, NEW r \in Requests, NEW p \in Posts, RequestBegins(r, p)
  PROVE  NameInv' /\ Steady
<1>1. RowNamed(p) /\ JobNamed(p) /\ "plan" # r
  BY NamesAssumption DEF NameInv
<1>2. CASE AskForAdd(r, p)
  <2>1. /\ row[p].status = "absent" /\ RowAt(p) /\ row'[p].status = "generating"
        /\ row'[p].meta.pending = r /\ ~row'[p].meta.banked /\ ~row'[p].meta.ungrounded
        /\ Begins(r, "check", "generate", p, r) /\ UNCHANGED <<job, tick>>
    BY <1>2, AddDoes
  <2>2. Steady
    BY <2>1, RowMoves, ReqStarts DEF Steady, There
  <2>3. RowNamed(p)'
    BY <2>1 DEF RowNamed, CopyNamed, Asking, There, Begins
  <2>4. ReqNamed(r)'
    BY <2>1 DEF ReqNamed, Begins, There, InFlight
  <2> QED
    BY <2>1, <2>2, <2>3, <2>4, NamesStay DEF RowAt, ReqAt, Begins
<1>3. CASE AskWithSubject(r, p)
  <2>1. /\ row[p].status # "absent" /\ row[p].meta.ungrounded /\ RowAt(p)
        /\ row'[p].status = row[p].status /\ row'[p].meta.pending = row[p].meta.pending
        /\ Begins(r, "check", "generate", p, r) /\ UNCHANGED <<job, tick>>
    BY <1>3, SubjectDoes
  <2>2. Steady /\ There(p) /\ There(p)'
    BY <2>1, RowMoves, ReqStarts DEF Steady, There
  <2>3. row[p].system
    BY <1>1, <2>1, <2>2 DEF RowNamed, CopyNamed
  <2>4. RowNamed(p)'
    BY <2>2, <2>3, RowWritten
  <2>5. ReqNamed(r)'
    BY <2>1, <2>2, <2>3 DEF ReqNamed, Begins, InFlight, RowAt
  <2> QED
    BY <2>1, <2>2, <2>4, <2>5, NamesStay DEF RowAt, ReqAt, Begins
<1>4. CASE AskForRewrite(r, p)
  <2>1. There(p) /\ Begins(r, "check", "rewrite", p, r) /\ UNCHANGED <<row, job, tick>>
    BY <1>4, RewriteDoes DEF There
  <2>2. Steady
    BY <2>1, StoresAlone, ReqStarts DEF Steady
  <2>3. ReqNamed(r)'
    BY <2>1 DEF ReqNamed, Begins, InFlight, There
  <2> QED
    BY <2>1, <2>2, <2>3, NamesStay DEF ReqAt, Begins
<1>5. CASE PatchReads(r, p)
  <2>1. There(p) /\ UNCHANGED <<row, job, tick>>
        /\ \E kind \in {"edit", "time"} : Begins(r, "patch", kind, p, "plan")
    BY <1>5, PatchReadsDoes DEF There
  <2>2. PICK kind \in {"edit", "time"} : Begins(r, "patch", kind, p, "plan")
    BY <2>1
  <2>3. Steady
    BY <2>1, <2>2, StoresAlone, ReqStarts DEF Steady
  <2>4. There(p)' /\ RowNamed(p)'
    BY <2>1, <2>3, SteadyKeeps DEF There
  <2>5. CopyNamed(p, row[p].meta)'
    BY <2>4, <2>1 DEF RowNamed, CopyNamed
  <2>6. ReqNamed(r)'
    BY <2>1, <2>2, <2>4, <2>5 DEF ReqNamed, Begins, InFlight, CopyNamed
  <2> QED
    BY <2>1, <2>2, <2>3, <2>6, NamesStay DEF ReqAt, Begins
<1> QED
  BY <1>2, <1>3, <1>4, <1>5 DEF RequestBegins

LEMMA RequestNames ==
  ASSUME TypeInv, NameInv, NEW r \in Requests, RequestStep(r) \/ AppCrash(r)
  PROVE  NameInv' /\ Steady
<1>p. PICK p \in Posts : p = req[r].post
  BY ReqTyped
<1>0. InFlight(r)
  BY DEF InFlight, RequestStep, AppCrash, Check, Bank, Mark, Enqueue, EnqueueError, Refused, PatchWrites
<1>1. ReqNamed(r) /\ p \in Posts /\ There(p) /\ RowNamed(p) /\ JobNamed(p)
  BY <1>0, <1>p DEF NameInv, ReqNamed, InFlight
\* A request that only ends, or goes on to queue its job, takes nothing along.
<1>2. ASSUME NEW pc \in {"done", "enqueue"}, ReqGoes(r, pc), req[r].pc # "patch"
      PROVE  ReqsSteady /\ (RowsSteady => ReqNamed(r)')
  <2>1. ReqsSteady
    BY <1>0, <1>2, ReqMoves
  <2> QED
    BY <1>p, <1>0, <1>1, <1>2, <2>1 DEF ReqNamed, ReqGoes, RowsSteady, InFlight
<1>3. ASSUME ReqGoes(r, "done")
      PROVE  ReqsSteady /\ (RowsSteady => ReqNamed(r)')
  <2>1. ReqsSteady
    BY <1>0, <1>3, ReqMoves
  <2> QED
    BY <1>p, <1>0, <1>1, <1>3, <2>1 DEF ReqNamed, ReqGoes, RowsSteady, InFlight
<1>4. CASE Check(r)
  <2>1. UNCHANGED <<row, job, tick>> /\ RowsSteady /\ req[r].pc = "check"
    BY <1>4, CheckDoes, StoresAlone
  <2>2. CASE ReqGoes(r, "done") \/ ReqGoes(r, "enqueue")
    <3>1. Steady /\ ReqNamed(r)'
      BY <1>2, <1>3, <2>1, <2>2 DEF Steady
    <3> QED
      BY <2>1, <2>2, <3>1, NamesStay DEF ReqGoes, ReqAt
  <2>3. ASSUME NEW pc \in {"bank", "mark"}, ReqGoes(r, pc), req[r].kind # "rewrite",
               req'[r].meta = row[p].meta
        PROVE  NameInv' /\ Steady
    <3>1. Steady
      BY <1>0, <2>1, <2>3, ReqMoves DEF Steady
    <3>2. req[r].kind = "generate"
      BY <1>0, <1>1, <2>1, <2>3 DEF ReqNamed, InFlight
    <3>3. ~row[p].system => row[p].meta.pending = r /\ ~row[p].meta.ungrounded /\ ~row[p].meta.banked
      BY <1>p, <1>0, <1>1, <3>2 DEF ReqNamed, RowNamed, CopyNamed, InFlight
    <3>4. ReqNamed(r)'
      BY <1>p, <1>1, <2>1, <2>3, <3>2, <3>3 DEF ReqNamed, ReqGoes, InFlight, There
    <3> QED
      BY <2>1, <2>3, <3>1, <3>4, NamesStay DEF ReqGoes, ReqAt
  <2> QED
    BY <1>p, <1>4, <2>2, <2>3, CheckDoes
<1>5. CASE Bank(r)
  <2>1. PICK m \in Meta :
          /\ req[r].pc = "bank" /\ ReqGoes(r, "done") /\ RowBecomes(p, "generation_failed", m)
          /\ m.pending = req[r].ask /\ m.ungrounded = req[r].meta.ungrounded
    BY <1>p, <1>5, BankDoes
  <2>2. req[r].ask = r /\ (~row[p].system => row[p].meta.pending = r /\ ~m.ungrounded)
    BY <1>p, <1>1, <2>1 DEF ReqNamed
  <2>3. RowsSteady
    BY <1>1, <2>1, <2>2, RowMoves DEF RowBecomes, There
  <2>4. Steady /\ ReqNamed(r)'
    BY <1>3, <2>1, <2>3 DEF Steady
  <2>5. RowNamed(p)'
    BY <1>1, <2>1, <2>2, <2>4, RowWritten DEF RowBecomes, ReqGoes
  <2> QED
    BY <1>1, <1>5, <2>1, <2>4, <2>5, BankDoes, NamesStay DEF ReqGoes, ReqAt, RowBecomes, RowAt
<1>6. CASE Mark(r)
  <2>1. PICK m \in Meta :
          /\ req[r].pc = "mark" /\ ReqGoes(r, "enqueue") /\ RowBecomes(p, "generating", m)
          /\ m.pending = req[r].ask /\ m.ungrounded = req[r].meta.ungrounded
          /\ m.banked = req[r].meta.banked
    BY <1>p, <1>6, MarkDoes
  <2>2. req[r].ask = r /\ (~row[p].system => row[p].meta.pending = r /\ ~m.ungrounded /\ ~m.banked)
    BY <1>p, <1>1, <2>1 DEF ReqNamed
  <2>3. RowsSteady
    BY <1>1, <2>1, <2>2, RowMoves DEF RowBecomes, There
  <2>4. Steady /\ ReqNamed(r)'
    BY <1>2, <2>1, <2>3 DEF Steady
  <2>5. RowNamed(p)'
    BY <1>1, <2>1, <2>2, <2>4, RowWritten DEF RowBecomes
  <2> QED
    BY <1>1, <1>6, <2>1, <2>4, <2>5, MarkDoes, NamesStay DEF ReqGoes, ReqAt, RowBecomes, RowAt
<1>7. CASE Enqueue(r)
  <2>1. /\ req[r].pc = "enqueue" /\ ReqGoes(r, "done") /\ UNCHANGED <<row, tick>>
        /\ \/ UNCHANGED job
           \/ JobAt(p) /\ job'[p] = Queued(req[r].ask, TRUE)
    BY <1>p, <1>7, EnqueueDoes
  <2>2. Steady /\ ReqNamed(r)'
    BY <1>3, <2>1, StoresAlone DEF Steady
  <2>3. CASE UNCHANGED job
    BY <2>1, <2>2, <2>3, NamesStay DEF ReqGoes, ReqAt
  <2>4. CASE JobAt(p) /\ job'[p] = Queued(req[r].ask, TRUE)
    <3>1. req[r].ask = r /\ Asking(r) /\ There(p)'
      BY <1>0, <1>1, <2>1, <2>2 DEF ReqNamed, Asking, InFlight, Steady, RowsSteady
    <3>2. job'[p].state = "waiting" /\ job'[p].ask = r
      BY <2>4, <3>1 DEF Queued
    <3>3. JobNamed(p)'
      BY <1>p, <2>1, <3>1, <3>2 DEF JobNamed, Asking, ReqGoes
    <3> QED
      BY <2>1, <2>2, <2>4, <3>3, NamesStay DEF ReqGoes, ReqAt, JobAt
  <2> QED
    BY <2>1, <2>3, <2>4
<1>8. CASE EnqueueError(r)
  <2>1. UNCHANGED <<row, job, tick>> /\ RowsSteady /\ req[r].pc = "enqueue"
    BY <1>8, EnqueueErrorDoes, StoresAlone
  <2>2. CASE ReqGoes(r, "done")
    <3>1. Steady /\ ReqNamed(r)'
      BY <1>3, <2>1, <2>2 DEF Steady
    <3> QED
      BY <2>1, <2>2, <3>1, NamesStay DEF ReqGoes, ReqAt
  <2>3. CASE req[r].kind # "rewrite" /\ ReqGoes(r, "refused")
    <3>1. Steady
      BY <1>0, <2>1, <2>3, ReqMoves DEF Steady
    <3>2. ReqNamed(r)'
      BY <1>p, <1>0, <1>1, <2>1, <2>3 DEF ReqNamed, ReqGoes, InFlight, There
    <3> QED
      BY <2>1, <2>3, <3>1, <3>2, NamesStay DEF ReqGoes, ReqAt
  <2> QED
    BY <1>8, <2>2, <2>3, EnqueueErrorDoes
<1>9. CASE Refused(r)
  <2>1. req[r].pc = "refused" /\ ReqGoes(r, "done") /\ UNCHANGED <<job, tick>>
    BY <1>9, RefusedDoes
  <2>2. CASE UNCHANGED row
    <3>1. Steady /\ ReqNamed(r)'
      BY <1>3, <2>1, <2>2, StoresAlone DEF Steady
    <3> QED
      BY <2>1, <2>2, <3>1, NamesStay DEF ReqGoes, ReqAt
  <2>3. ASSUME NEW m \in Meta, RowBecomes(p, "generation_failed", m), Same(m, row[p].meta)
        PROVE  NameInv' /\ Steady
    <3>1. RowsSteady
      BY <1>1, <2>3, RowMoves DEF RowBecomes, There, Same
    <3>2. Steady /\ ReqNamed(r)'
      BY <1>3, <2>1, <3>1 DEF Steady
    <3>3. RowNamed(p)'
      BY <1>1, <2>3, <3>2, RowWritten
         DEF RowBecomes, Same, RowNamed, CopyNamed, Steady, ReqsSteady
    <3> QED
      BY <1>1, <2>1, <2>3, <3>2, <3>3, NamesStay DEF ReqGoes, ReqAt, RowBecomes, RowAt
  <2> QED
    BY <1>p, <1>9, <2>2, <2>3, RefusedDoes
<1>10. CASE PatchWrites(r)
  <2>1. req[r].pc = "patch" /\ ReqGoes(r, "done") /\ UNCHANGED <<job, tick>>
    BY <1>10, PatchWritesDoes
  <2>2. PICK status \in {"new", "edited"}, m \in {req[r].meta, row[p].meta} : RowBecomes(p, status, m)
    BY <1>p, <1>10, PatchWritesDoes
  <2>3. There(p) /\ (~row[p].system => CopyNamed(p, m))
    BY <1>p, <1>1, <2>1, <2>2 DEF ReqNamed, RowNamed
  <2>4. RowsSteady
    BY <1>1, <2>2, <2>3, RowMoves DEF RowBecomes, There, CopyNamed
  <2>5. Steady /\ ReqNamed(r)'
    BY <1>3, <2>1, <2>4 DEF Steady
  <2>6. RowNamed(p)'
    BY <1>1, <2>2, <2>3, <2>5, RowWritten DEF RowBecomes, CopyNamed, RowNamed, Steady, ReqsSteady
  <2> QED
    BY <1>1, <2>1, <2>2, <2>5, <2>6, NamesStay DEF ReqGoes, ReqAt, RowBecomes, RowAt
<1>11. CASE AppCrash(r)
  <2>1. ReqGoes(r, "done") /\ UNCHANGED <<row, job, tick>>
    BY <1>11, AppCrashDoes
  <2>2. Steady /\ ReqNamed(r)'
    BY <1>3, <2>1, StoresAlone DEF Steady
  <2> QED
    BY <2>1, <2>2, NamesStay DEF ReqGoes, ReqAt
<1> QED
  BY <1>4, <1>5, <1>6, <1>7, <1>8, <1>9, <1>10, <1>11 DEF RequestStep

LEMMA PostNames ==
  ASSUME TypeInv, NameInv, NEW p \in Posts,
         JobStep(p) \/ Remove(p) \/ Revert(p) \/ Ages(p) \/ DayPasses(p)
  PROVE  NameInv' /\ Steady
<1>1. RowNamed(p) /\ JobNamed(p)
  BY DEF NameInv
\* The row moves and keeps its metadata.
<1>2. ASSUME UNCHANGED req, row'[p].meta = row[p].meta, RowAt(p), There(p), There(p)'
      PROVE  Steady /\ RowNamed(p)'
  <2>1. Steady
    BY <1>2, StoresAlone, RowMoves DEF Steady
  <2>2. RowNamed(p)'
    BY <1>1, <1>2, <2>1, RowWritten DEF RowNamed, CopyNamed
  <2> QED
    BY <2>1, <2>2
<1>3. CASE Remove(p) \/ Revert(p) \/ Ages(p) \/ DayPasses(p)
  <2>1. /\ UNCHANGED <<req, job, tick>> /\ row'[p].meta = row[p].meta /\ RowAt(p)
        /\ There(p) /\ There(p)'
    BY <1>3, RemoveDoes, RevertDoes, AgesDoes, DayPassesDoes DEF RowSame, There
  <2>2. Steady /\ RowNamed(p)'
    BY <1>2, <2>1
  <2> QED
    BY <2>1, <2>2, NamesStay DEF RowAt
<1>4. CASE JobStarts(p)
  <2>1. /\ job[p].state = "waiting" /\ JobGoes(p, "active") /\ job'[p].meta = row[p].meta
        /\ UNCHANGED <<row, req, tick>>
    BY <1>4, JobStartsDoes
  <2>2. Steady
    BY <2>1, StoresAlone DEF Steady
  <2>3. CopyNamed(p, row[p].meta)'
    BY <1>1, <2>1 DEF RowNamed, JobNamed, CopyNamed
  <2>4. JobNamed(p)'
    BY <1>1, <2>1, <2>3 DEF JobNamed, JobGoes, CopyNamed, Asking, There
  <2> QED
    BY <2>1, <2>2, <2>4, NamesStay DEF JobGoes, JobAt
<1>5. CASE JobWrites(p)
  <2>1. /\ job[p].state = "active" /\ RowSame(p) /\ row'[p].status \in {"new", "edited"}
        /\ JobGoes(p, "written") /\ UNCHANGED <<req, tick>>
    BY <1>5, JobWritesDoes
  <2>2. There(p) /\ There(p)' /\ RowAt(p) /\ row'[p].meta = row[p].meta
    BY <1>1, <2>1 DEF JobNamed, RowSame, There
  <2>3. Steady /\ RowNamed(p)'
    BY <1>2, <2>1, <2>2
  <2>4. JobNamed(p)'
    BY <1>1, <2>1, <2>2 DEF JobNamed, JobGoes, Asking
  <2> QED
    BY <2>1, <2>2, <2>3, <2>4, NamesStay DEF JobGoes, JobAt, RowAt
<1>6. CASE JobBills(p)
  <2>1. job[p].state = "written" /\ JobGoes(p, "billed") /\ UNCHANGED <<row, req, tick>>
    BY <1>6, JobBillsDoes
  <2>2. Steady
    BY <2>1, StoresAlone DEF Steady
  <2>3. JobNamed(p)'
    BY <1>1, <2>1 DEF JobNamed, JobGoes, Asking, There
  <2> QED
    BY <2>1, <2>2, <2>3, NamesStay DEF JobGoes, JobAt
<1>7. CASE JobThrows(p)
  <2>1. /\ job[p].state = "active" /\ UNCHANGED <<req, tick>>
        /\ JobGoes(p, "waiting") \/ JobGoes(p, "threw")
        /\ \/ UNCHANGED row
           \/ \E m \in Meta : Same(m, job[p].meta) /\ RowBecomes(p, "generation_failed", m)
    BY <1>7, JobThrowsDoes
  <2>2. There(p) /\ CopyNamed(p, job[p].meta)
    BY <1>1, <2>1 DEF JobNamed
  <2>3. Steady /\ (row'[p] = row[p] \/ RowNamed(p)') /\ (UNCHANGED row \/ RowAt(p))
    <3>1. CASE UNCHANGED row
      BY <2>1, <3>1, StoresAlone DEF Steady
    <3>2. ASSUME NEW m \in Meta, Same(m, job[p].meta), RowBecomes(p, "generation_failed", m)
          PROVE  Steady /\ RowNamed(p)' /\ RowAt(p)
      <4>1. RowsSteady
        BY <2>2, <3>2, RowMoves DEF CopyNamed, Same, RowBecomes, There
      <4>2. Steady
        BY <2>1, <4>1, StoresAlone DEF Steady
      <4>3. RowNamed(p)'
        BY <2>1, <2>2, <3>2, <4>2, RowWritten DEF CopyNamed, Same, RowBecomes
      <4> QED
        BY <3>2, <4>2, <4>3 DEF RowBecomes
    <3> QED
      BY <2>1, <3>1, <3>2
  <2>4. JobNamed(p)'
    BY <1>1, <2>1, <2>3 DEF JobNamed, JobGoes, Asking, Steady, RowsSteady
  <2> QED
    BY <2>1, <2>3, <2>4, NamesStay DEF JobGoes, JobAt, RowAt
<1>8. CASE JobFinishes(p)
  <2>1. JobAt(p) /\ job'[p].state = "none" /\ UNCHANGED <<row, req, tick>>
    BY <1>8, JobFinishesDoes
  <2>2. Steady
    BY <2>1, StoresAlone DEF Steady
  <2>3. JobNamed(p)'
    BY <2>1 DEF JobNamed
  <2> QED
    BY <2>1, <2>2, <2>3, NamesStay DEF JobAt
<1> QED
  BY <1>3, <1>4, <1>5, <1>6, <1>7, <1>8 DEF JobStep

LEMMA TickNames ==
  ASSUME TypeInv, NameInv, NEW t \in Ticks, TickStep(t)
  PROVE  NameInv' /\ Steady
<1>1. \A c \in Hands(tick[t]) : CandNamed(c) /\ c.post \in Posts /\ RowNamed(c.post) /\ c \in Candidates
  BY HeldIsCandidate DEF NameInv
\* A pass that only works on the rows it has selected takes up no other row.
<1>2. ASSUME UNCHANGED <<req, job>>, TickAt(t), Hands(tick'[t]) \subseteq Hands(tick[t]),
             RowsSteady, \A p \in Posts : row'[p] = row[p] \/ RowNamed(p)'
      PROVE  NameInv' /\ Steady
  <2>1. Steady
    BY <1>2, StoresAlone DEF Steady
  <2> QED
    BY <1>2, <2>1, NamesStay DEF TickAt
\* A row it writes keeps its adder, and comes out of the bank only.
<1>3. ASSUME NEW c \in Hands(tick[t]), NEW status, status # "absent", NEW m \in Meta, RowBecomes(c.post, status, m),
             UNCHANGED req,
             m.pending = c.meta.pending, m.ungrounded = c.meta.ungrounded, m.banked => c.meta.banked
      PROVE  RowsSteady /\ \A p \in Posts : row'[p] = row[p] \/ RowNamed(p)'
  <2>1. CandNamed(c) /\ c.post \in Posts /\ There(c.post)
    BY <1>1 DEF CandNamed
  <2>2. RowsSteady
    BY <1>3, <2>1, RowMoves DEF CandNamed, CopyNamed, RowBecomes, There
  <2>3. Steady
    BY <1>3, <2>2, StoresAlone DEF Steady
  <2>4. RowNamed(c.post)'
    BY <1>3, <2>1, <2>3, RowWritten DEF CandNamed, CopyNamed, RowBecomes
  <2> QED
    BY <1>3, <2>2, <2>4 DEF RowBecomes, RowAt
<1>4. CASE TickStarts(t)
  <2>1. /\ \A r \in Requests : req[r].pc \in {"idle", "done"}
        /\ TickGoes(t, "sweep") /\ tick'[t].todo = SweepRows /\ UNCHANGED <<row, job, req>>
    BY <1>4, TickStartsDoes
  <2>2. Steady
    BY <2>1, StoresAlone DEF Steady
  <2>3. ASSUME NEW c \in Hands(tick'[t]) PROVE CandNamed(c)'
    <3>1. c.post \in Posts /\ There(c.post) /\ c.meta = row[c.post].meta
      BY <2>1, <2>3, SweepRowsAre DEF Hands, TickGoes, There
    <3>2. RowNamed(c.post)
      BY <3>1 DEF NameInv
    <3> QED
      BY <2>1, <3>1, <3>2 DEF CandNamed, RowNamed, CopyNamed, Asking, There
  <2> QED
    BY <2>1, <2>2, <2>3, NamesStay DEF TickGoes, TickAt
<1>5. CASE RetireSelects(t) \/ ReleaseSelects(t)
  <2>1. PICK past \in BOOLEAN : tick'[t].todo = BankedRows(past)
    BY <1>5, SelectsDo
  <2>2. TickAt(t) /\ tick'[t].at = {} /\ UNCHANGED <<row, job, req>>
    BY <1>5, SelectsDo DEF TickGoes
  <2>3. Steady
    BY <2>2, StoresAlone DEF Steady
  <2>4. ASSUME NEW c \in Hands(tick'[t]) PROVE CandNamed(c)'
    <3>1. c.post \in Posts /\ There(c.post) /\ c.meta = row[c.post].meta /\ c.meta.banked
      BY <2>1, <2>2, <2>4, BankedRowsAre DEF Hands, There
    <3>2. RowNamed(c.post)
      BY <3>1 DEF NameInv
    <3> QED
      BY <2>2, <3>1, <3>2 DEF CandNamed, RowNamed, CopyNamed, There
  <2> QED
    BY <2>2, <2>3, <2>4, NamesStay DEF TickAt
<1>6. CASE SweepSkips(t) \/ ReleaseHolds(t) \/ TickAddError(t)
  BY <1>2, <1>6, PassesOverDoes, StoresAlone DEF TickGoes, Hands
<1>7. CASE SweepAdds(t) \/ ReleaseAdds(t)
  <2>1. PICK c \in tick[t].todo :
          /\ JobAt(c.post) /\ job'[c.post] = Queued(InstructionFor(c), BillableForPost(c.post))
          /\ TickAt(t) /\ tick'[t].todo = tick[t].todo \ {c} /\ tick'[t].at = {c}
          /\ UNCHANGED <<row, req>>
    BY <1>7, AddsDo
  <2>2. CandNamed(c) /\ c.post \in Posts /\ RowNamed(c.post) /\ c \in Candidates
    BY <1>1 DEF Hands
  <2>3. Steady
    BY <2>1, StoresAlone DEF Steady
  <2>4. PICK j : j = job'[c.post]
    OBVIOUS
  <2>5. j.state = "waiting" /\ j.ask = InstructionFor(c) /\ j.billable = BillableForPost(c.post)
    BY <2>1, <2>4 DEF Queued
  <2>6. j.billable => j.ask \in Requests /\ Asking(j.ask) /\ req[j.ask].pc = "done" /\ req[j.ask].post = c.post
    BY <2>2, <2>5, NamesAssumption
       DEF BillableForPost, InstructionFor, CandNamed, RowNamed, CopyNamed, Asks
  <2>7. JobNamed(c.post)'
    BY <2>1, <2>2, <2>4, <2>5, <2>6 DEF JobNamed, CandNamed, Asking, There
  <2> QED
    BY <2>1, <2>2, <2>3, <2>7, NamesStay DEF JobAt, TickAt, Hands
<1>8. CASE SweepStamps(t)
  <2>1. PICK c \in tick[t].at :
          /\ \/ UNCHANGED row
             \/ \E m \in Meta : /\ RowBecomes(c.post, "generating", m)
                                /\ m.pending = c.meta.pending /\ m.banked = c.meta.banked
                                /\ m.ungrounded = c.meta.ungrounded
          /\ TickGoes(t, "sweep") /\ tick'[t].todo = tick[t].todo /\ UNCHANGED <<job, req>>
    BY <1>8, SweepStampsDoes
  <2>2. RowsSteady /\ \A p \in Posts : row'[p] = row[p] \/ RowNamed(p)'
    BY <1>3, <2>1, StoresAlone DEF Hands
  <2> QED
    BY <1>2, <2>1, <2>2 DEF TickGoes, Hands
<1>9. CASE Retires(t)
  <2>1. PICK c \in tick[t].todo :
          /\ \/ UNCHANGED row
             \/ \E m \in Meta : /\ RowBecomes(c.post, "generation_expired", m)
                                /\ m.pending = c.meta.pending /\ ~m.banked
                                /\ m.ungrounded = c.meta.ungrounded
          /\ TickGoes(t, "retire") /\ tick'[t].todo = tick[t].todo \ {c} /\ UNCHANGED <<job, req>>
    BY <1>9, RetiresDoes
  <2>2. RowsSteady /\ \A p \in Posts : row'[p] = row[p] \/ RowNamed(p)'
    BY <1>3, <2>1, StoresAlone DEF Hands
  <2> QED
    BY <1>2, <2>1, <2>2 DEF TickGoes, Hands
<1>10. CASE ReleaseUnflags(t)
  <2>1. PICK c \in tick[t].at :
          /\ \/ UNCHANGED row
             \/ \E m \in Meta : /\ RowBecomes(c.post, "generating", m)
                                /\ m.pending = c.meta.pending /\ ~m.banked
                                /\ m.ungrounded = c.meta.ungrounded
          /\ TickGoes(t, "release") /\ tick'[t].todo = tick[t].todo /\ UNCHANGED <<job, req>>
    BY <1>10, ReleaseUnflagsDoes
  <2>2. RowsSteady /\ \A p \in Posts : row'[p] = row[p] \/ RowNamed(p)'
    BY <1>3, <2>1, StoresAlone DEF Hands
  <2> QED
    BY <1>2, <2>1, <2>2 DEF TickGoes, Hands
<1>11. CASE TickEnds(t)
  BY <1>2, <1>11, TickEndsDoes, StoresAlone DEF TickGoes, Hands
<1> QED
  BY <1>4, <1>5, <1>6, <1>7, <1>8, <1>9, <1>10, <1>11 DEF TickStep

LEMMA NameInvKept == TypeInv /\ NameInv /\ [Next]_vars => NameInv' /\ Steady
<1> SUFFICES ASSUME TypeInv, NameInv, [Next]_vars PROVE NameInv' /\ Steady
  OBVIOUS
<1>1. CASE UNCHANGED vars \/ MonthTurns
  <2>1. UNCHANGED <<row, req, job, tick>>
    BY <1>1 DEF MonthTurns
  <2>2. Steady
    BY <2>1, StoresAlone DEF Steady
  <2> QED
    BY <2>1, <2>2, NamesStay
<1>2. CASE WorkerCrash
  <2>1. UNCHANGED <<row, req>> /\ \A t \in Ticks : Hands(tick'[t]) = {}
    BY <1>2, WorkerCrashDoes
  <2>2. Steady
    BY <2>1, StoresAlone DEF Steady
  <2>3. ASSUME NEW p \in Posts, job'[p] # job[p] PROVE JobNamed(p)'
    <3>1. /\ job[p].state # "none" /\ job'[p].state = "waiting"
          /\ job'[p].ask = job[p].ask /\ job'[p].billable = job[p].billable
      BY <1>2, <2>3, WorkerCrashDoes
    <3>2. JobNamed(p)
      BY DEF NameInv
    <3> QED
      BY <2>1, <3>1, <3>2 DEF JobNamed, Asking, There
  <2> QED
    BY <2>1, <2>2, <2>3, NamesStay
<1> QED
  BY <1>1, <1>2, BeginNames, RequestNames, PostNames, TickNames DEF Next

-----------------------------------------------------------------------------
(* Who pays.  An ask is alive while something may still write its caption  *)
(* and charge it, and owed between the caption and its post_edits row.     *)

B(x) == IF x THEN 1 ELSE 0
Due(p) == row[p].status \in {"generating", "generation_failed"}
Working(p) == job[p].state \in {"waiting", "active"}
InHand(p) == \E t \in Ticks : \E c \in Hands(tick[t]) : c.post = p

\* The tick may queue the post again, or its last attempt puts it where a tick finds it.
Wanted(p) == Due(p) \/ InHand(p) \/ (job[p].state = "active" /\ job[p].isGenerating)
Paying(p, a) == Working(p) /\ job[p].billable /\ job[p].ask = a

Live(a) ==
  LET p == req[a].post IN
  /\ Asking(a)
  /\ \/ InFlight(a)
     \/ Paying(p, a)
     \/ ~row[p].system /\ row[p].meta.pending = a /\ Wanted(p)

Owed(a) == LET j == job[req[a].post] IN j.state = "written" /\ j.billable /\ j.ask = a

Paid(a) == charged[a] + B(Live(a)) + B(Owed(a)) <= B(Asking(a)) + crashes

PaidInv == charged["plan"] = 0 /\ \A a \in Requests : Paid(a)

LEMMA PaidInvInit == Init => PaidInv
<1> SUFFICES ASSUME Init PROVE PaidInv
  OBVIOUS
<1>1. charged["plan"] = 0 /\ crashes = 0
  BY DEF Init, Asks
<1>2. ASSUME NEW a \in Requests PROVE Paid(a)
  <2>1. charged[a] = 0 /\ ~Asking(a)
    BY <1>2 DEF Init, Asks, Asking
  <2>2. ASSUME NEW p \in Posts PROVE job[p].state # "written"
    BY <2>2 DEF Init, Queued, NoJob
  <2>3. req[a].post \in Posts
    BY TypeInvInit, ReqTyped
  <2> QED
    BY <1>1, <2>1, <2>2, <2>3 DEF Paid, Live, Owed, B
<1> QED
  BY <1>1, <1>2 DEF PaidInv

\* An ask that no step brings back to life or charges stays paid.
LEMMA PaidStays ==
  ASSUME TypeInv, NEW a \in Requests, Paid(a), charged'[a] = charged[a],
         crashes' \in Nat, crashes' >= crashes,
         Asking(a) => Asking(a)', Live(a)' => Live(a), Owed(a)' => Owed(a)
  PROVE  Paid(a)'
<1>1. charged[a] \in Nat /\ crashes \in Nat
  BY DEF TypeInv, Asks
<1>2. PICK asking : asking = B(Asking(a))
  OBVIOUS
<1>3. PICK live : live = B(Live(a))
  OBVIOUS
<1>4. PICK owed : owed = B(Owed(a))
  OBVIOUS
<1>5. PICK asked : asked = B(Asking(a))'
  OBVIOUS
<1>6. PICK lives : lives = B(Live(a))'
  OBVIOUS
<1>7. PICK owes : owes = B(Owed(a))'
  OBVIOUS
<1>8. /\ asking \in 0..1 /\ live \in 0..1 /\ owed \in 0..1 /\ asked \in 0..1 /\ lives \in 0..1 /\ owes \in 0..1
      /\ asking <= asked /\ lives <= live /\ owes <= owed
  BY <1>2, <1>3, <1>4, <1>5, <1>6, <1>7 DEF B
<1>9. charged[a] + live + owed <= asking + crashes
  BY <1>2, <1>3, <1>4 DEF Paid
<1>10. charged'[a] + lives + owes <= asked + crashes'
  BY <1>1, <1>8, <1>9
<1> QED
  BY <1>5, <1>6, <1>7, <1>10 DEF Paid

\* An ask whose request does not move: its post must not become wanted again.
LEMMA PaidQuiet ==
  ASSUME TypeInv, NameInv, PaidInv, RowsSteady, NEW a \in Requests, NEW p \in Posts, p = req[a].post,
         req'[a] = req[a], charged'[a] = charged[a], crashes' \in Nat, crashes' >= crashes,
         Asking(a) /\ Paying(p, a)' => Paying(p, a) \/ Live(a),
         Asking(a) /\ ~row[p].system /\ row[p].meta.pending = a /\ Wanted(p)' => Wanted(p),
         Owed(a)' => Owed(a)
  PROVE  Paid(a)'
<1>1. Paid(a)
  BY DEF PaidInv
<1>2. Asking(a)' <=> Asking(a)
  BY DEF Asking
<1>3. Asking(a) => There(p)
  BY DEF NameInv, ReqNamed, Asking
<1>4. Live(a)' => Live(a)
  <2> SUFFICES ASSUME Live(a)' PROVE Live(a)
    OBVIOUS
  <2>1. Asking(a) /\ There(p) /\ Asking(a)'
    BY <1>2, <1>3 DEF Live
  <2>2. CASE InFlight(a)'
    BY <2>1, <2>2 DEF Live, InFlight
  <2>3. CASE Paying(p, a)'
    BY <2>1, <2>3 DEF Live
  <2>4. CASE ~row'[p].system /\ row'[p].meta.pending = a /\ Wanted(p)'
    BY <2>1, <2>4 DEF Live, RowsSteady
  <2>5. Live(a)' => \/ InFlight(a)' \/ Paying(p, a)'
                    \/ ~row'[p].system /\ row'[p].meta.pending = a /\ Wanted(p)'
    <3>1. Paying(req[a].post, a)' => Paying(p, a)'
      BY DEF Paying, Working
    <3>2. Wanted(req[a].post)' => Wanted(p)'
      BY DEF Wanted, Due, InHand
    <3> QED
      BY <3>1, <3>2 DEF Live
  <2> QED
    BY <2>2, <2>3, <2>4, <2>5
<1> QED
  BY <1>1, <1>2, <1>4, PaidStays

\* What a post has to do with the money, when nothing of it moves.
LEMMA PostQuiet ==
  ASSUME NEW p \in Posts, row'[p] = row[p], job'[p] = job[p], InHand(p)' => InHand(p), NEW a
  PROVE  (Wanted(p)' => Wanted(p)) /\ (Paying(p, a)' => Paying(p, a))
BY DEF Wanted, Due, Paying, Working

LEMMA OwedQuiet ==
  ASSUME TypeInv, NEW a \in Requests, NEW p \in Posts, p = req[a].post, req'[a] = req[a],
         job'[p] = job[p]
  PROVE  Owed(a)' => Owed(a)
BY DEF Owed

\* The one that asks is alive while its request is under way, whatever it does next.
LEMMA PaidAsking ==
  ASSUME TypeInv, NameInv, PaidInv, NEW r \in Requests, InFlight(r), ReqsSteady,
         charged'[r] = charged[r], crashes' \in Nat, crashes' >= crashes, Owed(r)' => Owed(r)
  PROVE  Paid(r)'
<1>1. Paid(r)
  BY DEF PaidInv
<1>2. Asking(r)' <=> Asking(r)
  BY DEF Asking, InFlight, ReqsSteady
<1>3. Live(r)' => Live(r)
  BY <1>2 DEF Live
<1> QED
  BY <1>1, <1>2, <1>3, PaidStays

LEMMA HandsAlone ==
  /\ UNCHANGED tick => \A p : InHand(p)' => InHand(p)
  /\ \A t \in Ticks : TickAt(t) /\ Hands(tick'[t]) \subseteq Hands(tick[t]) => \A p : InHand(p)' => InHand(p)
BY DEF InHand, Hands, TickAt

LEMMA Numbers == TypeInv => charged \in [Asks -> Nat] /\ crashes \in Nat /\ crashes + 1 >= crashes
BY DEF TypeInv

\* A request's step that only moves the request, and the row of its own post.
LEMMA PaidMoves ==
  ASSUME TypeInv, NameInv, PaidInv, Steady, NEW r \in Requests, InFlight(r), ReqAt(r),
         NEW p \in Posts, p = req[r].post,
         UNCHANGED row \/ RowAt(p), UNCHANGED <<job, tick, charged>>, crashes' \in {crashes, crashes + 1},
         ~Due(p)' \/ UNCHANGED row \/ (~row[p].system => row[p].meta.pending = r)
  PROVE  PaidInv'
<1>1. crashes' \in Nat /\ crashes' >= crashes
  BY Numbers
<1>2. Owed(r)' => Owed(r)
  BY DEF Owed, Steady, ReqsSteady, InFlight
<1>3. Paid(r)'
  BY <1>1, <1>2, PaidAsking DEF Steady
<1>4. ASSUME NEW a \in Requests, a # r PROVE Paid(a)'
  <2>1. PICK q \in Posts : q = req[a].post
    BY ReqTyped
  <2>2. req'[a] = req[a] /\ InHand(q)' => InHand(q)
    BY <1>4, HandsAlone DEF ReqAt
  <2>3. (Owed(a)' => Owed(a)) /\ (Paying(q, a)' => Paying(q, a))
    BY <1>4, <2>1, OwedQuiet DEF Paying, Working, ReqAt
  <2>4. ~row[q].system /\ row[q].meta.pending = a /\ Wanted(q)' => Wanted(q)
    <3>1. CASE row'[q] = row[q]
      BY <2>2, <3>1, HandsAlone DEF Wanted, Due
    <3>2. CASE row'[q] # row[q]
      <4>1. q = p
        BY <3>2 DEF RowAt
      <4>2. CASE ~Due(p)'
        BY <4>1, <4>2, HandsAlone DEF Wanted, Due
      <4>3. CASE UNCHANGED row
        BY <3>2, <4>3
      <4>4. CASE ~row[p].system => row[p].meta.pending = r
        BY <1>4, <4>1, <4>4
      <4> QED
        BY <4>2, <4>3, <4>4
    <3> QED
      BY <3>1, <3>2
  <2> QED
    BY <1>1, <1>4, <2>1, <2>3, <2>4, PaidQuiet DEF Steady, ReqAt
<1> QED
  BY <1>3, <1>4, NamesAssumption DEF PaidInv

LEMMA RequestPays ==
  ASSUME TypeInv, NameInv, PaidInv, Steady, NEW r \in Requests, RequestStep(r) \/ AppCrash(r)
  PROVE  PaidInv'
<1>p. PICK p \in Posts : p = req[r].post
  BY ReqTyped
<1>0. InFlight(r)
  BY DEF InFlight, RequestStep, AppCrash, Check, Bank, Mark, Enqueue, EnqueueError, Refused, PatchWrites
<1>1. ReqNamed(r)
  BY DEF NameInv
<1>2. CASE Check(r)
  BY <1>p, <1>0, <1>2, CheckDoes, PaidMoves DEF ReqGoes
<1>3. CASE Bank(r)
  <2>1. req[r].pc = "bank" /\ ReqAt(r) /\ RowAt(p) /\ UNCHANGED <<job, tick, charged, crashes>>
    BY <1>p, <1>3, BankDoes DEF ReqGoes, RowBecomes
  <2> QED
    BY <1>p, <1>0, <1>1, <2>1, PaidMoves DEF ReqNamed
<1>4. CASE Mark(r)
  <2>1. req[r].pc = "mark" /\ ReqAt(r) /\ RowAt(p) /\ UNCHANGED <<job, tick, charged, crashes>>
    BY <1>p, <1>4, MarkDoes DEF ReqGoes, RowBecomes
  <2> QED
    BY <1>p, <1>0, <1>1, <2>1, PaidMoves DEF ReqNamed
<1>5. CASE Enqueue(r)
  <2>1. /\ req[r].pc = "enqueue" /\ ReqAt(r) /\ UNCHANGED <<row, tick, charged, crashes>>
        /\ \/ UNCHANGED job
           \/ JobAt(p) /\ ~Busy(p) /\ job'[p] = Queued(req[r].ask, TRUE)
    BY <1>p, <1>5, EnqueueDoes DEF ReqGoes
  <2>2. CASE UNCHANGED job
    BY <1>p, <1>0, <2>1, <2>2, PaidMoves
  <2>3. CASE JobAt(p) /\ ~Busy(p) /\ job'[p] = Queued(req[r].ask, TRUE)
    <3>1. /\ job'[p].state = "waiting" /\ job'[p].ask = r /\ job[p].state = "none"
      BY <1>1, <1>0, <2>1, <2>3 DEF Queued, ReqNamed, InFlight, Busy
    <3>2. crashes' \in Nat /\ crashes' >= crashes /\ charged' = charged
      BY <2>1, Numbers
    <3>3. Owed(r)' => Owed(r)
      BY <1>0, <1>p, <3>1 DEF Owed, Steady, ReqsSteady, InFlight
    <3>4. Paid(r)'
      BY <1>0, <3>2, <3>3, PaidAsking DEF Steady
    <3>5. ASSUME NEW a \in Requests, a # r PROVE Paid(a)'
      <4>1. PICK q \in Posts : q = req[a].post
        BY ReqTyped
      <4>2. req'[a] = req[a]
        BY <2>1, <3>5 DEF ReqAt
      <4>3. (Owed(a)' => Owed(a)) /\ (Paying(q, a)' => Paying(q, a)) /\ (Wanted(q)' => Wanted(q))
        <5>1. CASE q = p
          BY <2>1, <3>1, <3>5, <4>1, <4>2, <5>1, HandsAlone DEF Owed, Paying, Wanted, Due
        <5>2. CASE q # p
          BY <2>1, <2>3, <4>1, <4>2, <5>2, HandsAlone, PostQuiet, OwedQuiet DEF JobAt
        <5> QED
          BY <5>1, <5>2
      <4> QED
        BY <3>2, <4>1, <4>2, <4>3, PaidQuiet DEF Steady
    <3> QED
      BY <3>2, <3>4, <3>5 DEF PaidInv
  <2> QED
    BY <2>1, <2>2, <2>3
<1>6. CASE EnqueueError(r)
  BY <1>p, <1>0, <1>6, EnqueueErrorDoes, PaidMoves DEF ReqGoes
<1>7. CASE Refused(r)
  <2>1. /\ req[r].pc = "refused" /\ ReqAt(r)
        /\ UNCHANGED row \/ RowAt(p)
        /\ UNCHANGED <<job, tick, charged, crashes>>
    BY <1>p, <1>7, RefusedDoes DEF ReqGoes, RowBecomes
  <2> QED
    BY <1>p, <1>0, <1>1, <2>1, PaidMoves DEF ReqNamed
<1>8. CASE PatchWrites(r)
  <2>1. /\ ReqAt(r) /\ RowAt(p) /\ ~Due(p)' /\ UNCHANGED <<job, tick, charged, crashes>>
    BY <1>p, <1>8, PatchWritesDoes DEF ReqGoes, RowBecomes, Due
  <2> QED
    BY <1>p, <1>0, <2>1, PaidMoves
<1>9. CASE AppCrash(r)
  BY <1>p, <1>0, <1>9, AppCrashDoes, PaidMoves DEF ReqGoes
<1> QED
  BY <1>2, <1>3, <1>4, <1>5, <1>6, <1>7, <1>8, <1>9 DEF RequestStep

LEMMA BeginPays ==
  ASSUME TypeInv, NameInv, PaidInv, Steady, NEW r \in Requests, NEW p \in Posts, RequestBegins(r, p)
  PROVE  PaidInv'
<1>1. /\ Begins(r, "check", "generate", p, r) \/ Begins(r, "check", "rewrite", p, r)
         \/ \E kind \in {"edit", "time"} : Begins(r, "patch", kind, p, "plan")
      /\ \/ UNCHANGED row
         \/ RowAt(p) /\ ~There(p) /\ row'[p].meta.pending = r
         \/ RowAt(p) /\ row[p].system
      /\ UNCHANGED <<job, tick, charged, crashes>>
  <2>1. CASE AskWithSubject(r, p)
    <3>1. RowNamed(p)
      BY DEF NameInv
    <3> QED
      BY <2>1, <3>1, SubjectDoes DEF RowNamed, CopyNamed, There
  <2>2. CASE AskForAdd(r, p)
    BY <2>2, AddDoes DEF There
  <2> QED
    BY <2>1, <2>2, RewriteDoes, PatchReadsDoes DEF RequestBegins
<1>2. crashes' \in Nat /\ crashes' >= crashes /\ charged \in [Asks -> Nat]
  BY <1>1, Numbers
<1>3. ~Asking(r) /\ req[r].pc = "idle" /\ ReqAt(r) /\ req'[r].post = p
  BY <1>1 DEF Begins, Asking
\* It has paid nothing yet: every job that pays is of a request that has begun.
<1>4. Paid(r)'
  <2>1. Paid(r) /\ JobNamed(p)
    BY DEF PaidInv, NameInv
  <2>2. charged[r] \in Nat /\ charged'[r] = charged[r] /\ crashes \in Nat /\ crashes' = crashes
    BY <1>1, <1>2, Numbers DEF Asks
  <2>3. charged[r] <= crashes
    <3>1. B(Live(r)) \in 0..1 /\ B(Owed(r)) \in 0..1 /\ B(Asking(r)) = 0
      BY <1>3 DEF B
    <3> HIDE DEF B
    <3> QED
      BY <2>1, <2>2, <3>1 DEF Paid
  <2>4. ~Owed(r)'
    BY <1>1, <1>3, <2>1 DEF Owed, JobNamed
  <2>5. ~Asking(r)' => ~Live(r)'
    BY DEF Live
  <2> QED
    BY <2>2, <2>3, <2>4, <2>5 DEF Paid, B
<1>5. ASSUME NEW a \in Requests, a # r PROVE Paid(a)'
  <2>1. PICK q \in Posts : q = req[a].post
    BY ReqTyped
  <2>2. req'[a] = req[a]
    BY <1>3, <1>5 DEF ReqAt
  <2>3. (Owed(a)' => Owed(a)) /\ (Paying(q, a)' => Paying(q, a))
    BY <1>1, <2>1, <2>2, OwedQuiet DEF Paying, Working
  <2>4. Asking(a) => There(q)
    BY <2>1 DEF NameInv, ReqNamed, Asking
  <2>5. Asking(a) /\ ~row[q].system /\ row[q].meta.pending = a /\ Wanted(q)' => Wanted(q)
    <3>1. CASE row'[q] = row[q]
      BY <1>1, <3>1, HandsAlone DEF Wanted, Due
    <3>2. CASE row'[q] # row[q]
      BY <1>1, <2>4, <3>2 DEF RowAt
    <3> QED
      BY <3>1, <3>2
  <2> QED
    BY <1>1, <1>2, <2>1, <2>2, <2>3, <2>5, PaidQuiet DEF Steady
<1> QED
  BY <1>1, <1>4, <1>5 DEF PaidInv

\* A step of a post, its job or a tick moves no request: an ask must stay unwanted.
LEMMA PaidElsewhere ==
  ASSUME TypeInv, NameInv, NameInv', PaidInv, Steady, UNCHANGED <<req, charged>>, crashes' = crashes,
         NEW p \in Posts, RowAt(p) \/ UNCHANGED row, JobAt(p) \/ UNCHANGED job,
         \A q \in Posts : InHand(q)' => InHand(q) \/ Due(q),
         Wanted(p)' => Wanted(p),
         \A a \in Requests : Asking(a) /\ req[a].post = p =>
            \/ Paid(a)'
            \/ /\ Paying(p, a)' => Paying(p, a) \/ Live(a)
               /\ Owed(a)' => Owed(a)
  PROVE  PaidInv'
<1>1. crashes' \in Nat /\ crashes' >= crashes
  BY Numbers
<1>2. ASSUME NEW a \in Requests PROVE Paid(a)'
  <2>1. PICK q \in Posts : q = req[a].post
    BY ReqTyped
  <2>2. CASE q = p /\ Asking(a)
    BY <1>1, <2>1, <2>2, PaidQuiet DEF Steady
  <2>3. CASE q # p
    <3>1. row'[q] = row[q] /\ job'[q] = job[q]
      BY <2>3 DEF RowAt, JobAt
    <3>2. Wanted(q)' => Wanted(q)
      BY <3>1 DEF Wanted, Due
    <3>3. (Owed(a)' => Owed(a)) /\ (Paying(q, a)' => Paying(q, a))
      BY <2>1, <3>1, OwedQuiet DEF Paying, Working
    <3> QED
      BY <1>1, <2>1, <3>2, <3>3, PaidQuiet DEF Steady
  <2>4. CASE q = p /\ ~Asking(a)
    <3>1. ~Owed(a)'
      <4>1. JobNamed(p)'
        BY DEF NameInv
      <4> QED
        BY <2>1, <2>4, <4>1 DEF Owed, JobNamed, Asking
    <3> QED
      BY <1>1, <2>1, <2>4, <3>1, PaidQuiet DEF Steady
  <2> QED
    BY <2>2, <2>3, <2>4
<1> QED
  BY <1>2 DEF PaidInv

LEMMA PostPays ==
  ASSUME TypeInv, NameInv, NameInv', PaidInv, Steady, NEW p \in Posts,
         JobStep(p) \/ Remove(p) \/ Revert(p) \/ Ages(p) \/ DayPasses(p)
  PROVE  PaidInv'
<1>1. JobNamed(p) /\ RowNamed(p) /\ (UNCHANGED tick => \A q \in Posts : InHand(q)' => InHand(q))
  BY HandsAlone DEF NameInv
<1>2. CASE Remove(p) \/ Revert(p) \/ Ages(p) \/ DayPasses(p)
  <2>1. /\ RowAt(p) /\ UNCHANGED <<job, req, tick, charged, crashes>> /\ (Due(p)' => Due(p))
    BY <1>2, RemoveDoes, RevertDoes, AgesDoes, DayPassesDoes DEF RowSame, Due
  <2>2. Wanted(p)' => Wanted(p)
    BY <1>1, <2>1 DEF Wanted
  <2>3. \A a \in Requests : (Paying(p, a)' => Paying(p, a)) /\ (Owed(a)' => Owed(a))
    BY <2>1 DEF Paying, Working, Owed
  <2> QED
    BY <1>1, <2>1, <2>2, <2>3, PaidElsewhere
<1>3. CASE JobStarts(p)
  <2>1. /\ job[p].state = "waiting" /\ JobGoes(p, "active") /\ (job'[p].isGenerating <=> Due(p))
        /\ UNCHANGED <<row, req, tick, charged, crashes>>
    BY <1>3, JobStartsDoes DEF Due
  <2>2. Wanted(p)' => Wanted(p)
    BY <1>1, <2>1 DEF Wanted, Due
  <2>3. \A a \in Requests : req[a].post = p => (Paying(p, a)' => Paying(p, a)) /\ (Owed(a)' => Owed(a))
    BY <2>1 DEF Paying, Working, Owed, JobGoes
  <2> QED
    BY <1>1, <2>1, <2>2, <2>3, PaidElsewhere DEF JobGoes
\* No tick has the post in hand and it is no longer due: its ask is owed, and nothing else.
<1>4. CASE JobWrites(p)
  <2>1. /\ job[p].state = "active" /\ Timely(p) /\ RowAt(p) /\ ~Due(p)' /\ JobGoes(p, "written")
        /\ UNCHANGED <<req, tick, charged, crashes>>
    BY <1>4, JobWritesDoes DEF RowSame, Due
  <2>2. ~InHand(p)'
    BY <2>1 DEF InHand, Timely, Hands
  <2>3. ~Wanted(p)'
    BY <2>1, <2>2 DEF Wanted, JobGoes
  <2>4. ASSUME NEW a \in Requests, Asking(a), req[a].post = p, ~Paid(a)'
        PROVE  (Paying(p, a)' => Paying(p, a)) /\ (Owed(a)' => Owed(a))
    <3>1. ~Paying(p, a)'
      BY <2>1 DEF Paying, Working, JobGoes
    <3>2. ASSUME Owed(a)' PROVE Paid(a)'
      <4>1. job[p].billable /\ job[p].ask = a
        BY <2>1, <2>4, <3>2 DEF Owed, JobGoes
      <4>2. req[a].pc = "done" /\ Live(a) /\ ~Owed(a)
        BY <1>1, <2>1, <2>4, <4>1 DEF JobNamed, Live, Paying, Working, Owed
      <4>3. ~Live(a)'
        BY <2>1, <2>3, <2>4, <3>1, <4>2 DEF Live, InFlight
      <4>4. Paid(a) /\ charged[a] \in Nat /\ crashes \in Nat
        BY Numbers DEF PaidInv, Asks
      <4>5. charged[a] + 1 <= B(Asking(a)) + crashes
        BY <4>2, <4>4 DEF Paid, B
      <4>6. B(Asking(a))' = B(Asking(a)) /\ B(Owed(a))' = 1 /\ B(Live(a))' = 0
        BY <2>1, <3>2, <4>3 DEF B, Asking
      <4> QED
        BY <2>1, <4>4, <4>5, <4>6 DEF Paid, B
    <3> QED
      BY <2>4, <3>1, <3>2
  <2> QED
    BY <1>1, <2>1, <2>3, <2>4, PaidElsewhere DEF JobGoes
<1>5. CASE JobBills(p)
  <2>1. /\ job[p].state = "written" /\ JobGoes(p, "billed") /\ UNCHANGED <<row, req, tick, crashes>>
    BY <1>5, JobBillsDoes
  <2>2. \/ UNCHANGED charged
        \/ /\ job[p].billable /\ charged'[job[p].ask] = charged[job[p].ask] + 1
           /\ \A a \in Asks \ {job[p].ask} : charged'[a] = charged[a]
    BY <1>5, JobBillsDoes
  <2>3. (Wanted(p)' => Wanted(p)) /\ \A a : ~Paying(p, a)'
    BY <1>1, <2>1 DEF Wanted, Due, Paying, Working, JobGoes
  <2>4. crashes' \in Nat /\ crashes' >= crashes
    BY <2>1, Numbers
  <2>5. ASSUME NEW a \in Requests, charged'[a] = charged[a] PROVE Paid(a)'
    <3>1. PICK q \in Posts : q = req[a].post
      BY ReqTyped
    <3>2. CASE q = p
      <4>1. ~Owed(a)'
        BY <2>1, <3>1, <3>2 DEF Owed, JobGoes
      <4> QED
        BY <2>1, <2>3, <2>4, <2>5, <3>1, <3>2, <4>1, PaidQuiet DEF Steady
    <3>3. CASE q # p
      <4>1. row'[q] = row[q] /\ job'[q] = job[q] /\ (InHand(q)' => InHand(q))
        BY <1>1, <2>1, <3>3 DEF JobGoes, JobAt
      <4> QED
        BY <2>1, <2>4, <2>5, <3>1, <4>1, PostQuiet, OwedQuiet, PaidQuiet DEF Steady
    <3> QED
      BY <3>2, <3>3
  <2>6. ASSUME NEW a \in Requests, job[p].billable, a = job[p].ask, charged'[a] = charged[a] + 1
        PROVE  Paid(a)'
    <3>1. Asking(a) /\ req[a].pc = "done" /\ req[a].post = p /\ Owed(a) /\ ~Owed(a)'
      BY <1>1, <2>1, <2>6 DEF JobNamed, Owed, JobGoes
    <3>2. Live(a)' => Live(a)
      BY <2>1, <2>3, <3>1 DEF Live, InFlight, Asking
    <3>3. Paid(a) /\ charged[a] \in Nat /\ crashes \in Nat
      BY Numbers DEF PaidInv, Asks
    <3>4. B(Asking(a))' = B(Asking(a)) /\ B(Owed(a))' = 0 /\ B(Owed(a)) = 1
      BY <2>1, <3>1 DEF B, Asking
    <3>5. PICK live : live = B(Live(a))
      OBVIOUS
    <3>6. PICK lives : lives = B(Live(a))'
      OBVIOUS
    <3>7. live \in 0..1 /\ lives \in 0..1 /\ lives <= live
      BY <3>2, <3>5, <3>6 DEF B
    <3>8. charged[a] + live + 1 <= B(Asking(a)) + crashes
      BY <3>3, <3>4, <3>5 DEF Paid
    <3>9. B(Asking(a)) \in 0..1
      BY DEF B
    <3> HIDE DEF B
    <3>10. charged'[a] + lives + 0 <= B(Asking(a)) + crashes
      BY <2>6, <3>3, <3>7, <3>8, <3>9
    <3> QED
      BY <2>1, <3>4, <3>6, <3>10 DEF Paid
  <2>7. charged'["plan"] = charged["plan"]
    <3>1. job[p].billable => job[p].ask # "plan"
      BY <1>1, <2>1, NamesAssumption DEF JobNamed
    <3> QED
      BY <2>2, <3>1 DEF Asks
  <2>8. ASSUME NEW a \in Requests PROVE Paid(a)'
    BY <2>2, <2>5, <2>6 DEF Asks
  <2> QED
    BY <2>7, <2>8 DEF PaidInv
<1>6. CASE JobThrows(p)
  <2>1. /\ job[p].state = "active" /\ UNCHANGED <<req, tick, charged, crashes>>
        /\ JobGoes(p, "waiting") \/ JobGoes(p, "threw")
        /\ UNCHANGED row \/ (RowAt(p) /\ job[p].isGenerating)
    BY <1>6, JobThrowsDoes DEF RowBecomes
  <2>2. Wanted(p)' => Wanted(p)
    BY <1>1, <2>1 DEF Wanted, Due, JobGoes
  <2>3. \A a \in Requests : req[a].post = p => (Paying(p, a)' => Paying(p, a)) /\ (Owed(a)' => Owed(a))
    BY <2>1 DEF Paying, Working, Owed, JobGoes
  <2> QED
    BY <1>1, <2>1, <2>2, <2>3, PaidElsewhere DEF JobGoes
<1>7. CASE JobFinishes(p)
  <2>1. JobAt(p) /\ job'[p].state = "none" /\ UNCHANGED <<row, req, tick, charged, crashes>>
    BY <1>7, JobFinishesDoes
  <2>2. Wanted(p)' => Wanted(p)
    BY <1>1, <2>1 DEF Wanted, Due
  <2>3. \A a \in Requests : req[a].post = p => ~Paying(p, a)' /\ ~Owed(a)'
    BY <2>1 DEF Paying, Working, Owed
  <2> QED
    BY <1>1, <2>1, <2>2, <2>3, PaidElsewhere
<1> QED
  BY <1>2, <1>3, <1>4, <1>5, <1>6, <1>7 DEF JobStep

LEMMA TickPays ==
  ASSUME TypeInv, NameInv, NameInv', PaidInv, Steady, NEW t \in Ticks, TickStep(t)
  PROVE  PaidInv'
<1>1. \A c \in Hands(tick[t]) : c.post \in Posts /\ InHand(c.post) /\ c \in Candidates
  BY HeldIsCandidate DEF InHand
<1>2. PICK p \in Posts : TRUE
  BY PostsAssumption
<1>3. ASSUME UNCHANGED job PROVE \A q \in Posts : \A a \in Requests :
                                    (Paying(q, a)' => Paying(q, a)) /\ (UNCHANGED req => (Owed(a)' => Owed(a)))
  BY <1>3 DEF Paying, Working, Owed
\* It queues nothing and writes at most a row it has in hand.
<1>4. ASSUME UNCHANGED <<req, job, charged>>, crashes' = crashes, TickAt(t),
             Hands(tick'[t]) \subseteq Hands(tick[t]),
             NEW c, UNCHANGED row \/ (c \in Hands(tick[t]) /\ RowAt(c.post))
      PROVE  PaidInv'
  <2>1. \A q \in Posts : InHand(q)' => InHand(q)
    BY <1>4, HandsAlone
  <2>2. CASE UNCHANGED row
    <3>1. Wanted(p)' => Wanted(p)
      BY <1>2, <1>4, <2>1, <2>2 DEF Wanted, Due
    <3> QED
      BY <1>2, <1>3, <1>4, <2>1, <2>2, <3>1, PaidElsewhere
  <2>3. CASE c \in Hands(tick[t]) /\ RowAt(c.post)
    <3>1. c.post \in Posts /\ (Wanted(c.post)' => Wanted(c.post))
      BY <1>1, <2>3 DEF Wanted
    <3>2. PICK q \in Posts : q = c.post
      BY <3>1
    <3> QED
      BY <1>3, <1>4, <2>1, <2>3, <3>1, <3>2, PaidElsewhere
  <2> QED
    BY <1>4, <2>2, <2>3
\* It selects rows that are due.
<1>5. ASSUME UNCHANGED <<row, req, job, charged, crashes>>, TickAt(t),
             \A c \in Hands(tick'[t]) : c.post \in Posts /\ Due(c.post)
      PROVE  PaidInv'
  <2>1. \A q \in Posts : InHand(q)' => InHand(q) \/ Due(q)
    BY <1>5 DEF InHand, TickAt, Hands
  <2>2. Wanted(p)' => Wanted(p)
    BY <1>2, <1>5, <2>1 DEF Wanted, Due
  <2> QED
    BY <1>2, <1>3, <1>5, <2>1, <2>2, PaidElsewhere
<1>6. CASE TickStarts(t)
  BY <1>5, <1>6, TickStartsDoes, SweepRowsAre DEF TickGoes, Hands, Due
<1>7. CASE RetireSelects(t) \/ ReleaseSelects(t)
  BY <1>5, <1>7, SelectsDo, BankedRowsAre DEF TickGoes, Hands, Due
<1>8. CASE SweepSkips(t) \/ ReleaseHolds(t) \/ TickAddError(t)
  BY <1>4, <1>8, PassesOverDoes DEF TickGoes, Hands
\* The ask it queues was alive: it had the post in hand.
<1>9. CASE SweepAdds(t) \/ ReleaseAdds(t)
  <2>1. PICK c \in tick[t].todo :
          /\ ~Busy(c.post) /\ JobAt(c.post)
          /\ job'[c.post] = Queued(InstructionFor(c), BillableForPost(c.post))
          /\ TickAt(t) /\ tick'[t].todo = tick[t].todo \ {c} /\ tick'[t].at = {c}
          /\ UNCHANGED <<row, req, charged, crashes>>
    BY <1>9, AddsDo
  <2>2. PICK q \in Posts : q = c.post
    BY <1>1 DEF Hands
  <2>3. CandNamed(c) /\ RowNamed(q) /\ InHand(q)
    BY <1>1, <2>2 DEF NameInv, Hands
  <2>4. /\ job'[q].state = "waiting" /\ job'[q].ask = InstructionFor(c)
        /\ job'[q].billable = ~row[q].system
    BY <2>1, <2>2 DEF Queued, BillableForPost
  <2>5. \A x \in Posts : InHand(x)' => InHand(x)
    BY <2>1, HandsAlone DEF Hands
  <2>6. Wanted(q)' => Wanted(q)
    BY <2>3 DEF Wanted
  <2>7. ASSUME NEW a \in Requests, Asking(a), req[a].post = q PROVE (Paying(q, a)' => Live(a)) /\ ~Owed(a)'
    <3>1. ~Owed(a)'
      BY <2>1, <2>4, <2>7 DEF Owed
    <3>2. ASSUME Paying(q, a)' PROVE Live(a)
      <4>1. ~row[q].system /\ InstructionFor(c) = a
        BY <2>4, <3>2 DEF Paying
      <4>2. row[q].meta.pending = a
        BY <2>2, <2>3, <4>1, NamesAssumption DEF InstructionFor, CandNamed, CopyNamed, RowNamed, Asks
      <4> QED
        BY <2>3, <2>7, <4>1, <4>2 DEF Live, Wanted
    <3> QED
      BY <3>1, <3>2
  <2> QED
    BY <2>1, <2>2, <2>5, <2>6, <2>7, PaidElsewhere
<1>10. CASE SweepStamps(t)
  BY <1>4, <1>10, SweepStampsDoes DEF TickGoes, Hands, RowBecomes
<1>11. CASE Retires(t)
  BY <1>4, <1>11, RetiresDoes DEF TickGoes, Hands, RowBecomes
<1>12. CASE ReleaseUnflags(t)
  BY <1>4, <1>12, ReleaseUnflagsDoes DEF TickGoes, Hands, RowBecomes
<1>13. CASE TickEnds(t)
  BY <1>4, <1>13, TickEndsDoes DEF TickGoes, Hands
<1> QED
  BY <1>6, <1>7, <1>8, <1>9, <1>10, <1>11, <1>12, <1>13 DEF TickStep

\* A death of the engine may run a written job again: the one step that lets an ask be
\* charged once more.
LEMMA CrashPays ==
  ASSUME TypeInv, PaidInv, WorkerCrash
  PROVE  PaidInv'
<1>1. /\ \A p \in Posts : job'[p].state # "written"
      /\ crashes' = crashes + 1 /\ UNCHANGED <<req, charged>>
  BY WorkerCrashDoes
<1>2. ASSUME NEW a \in Requests PROVE Paid(a)'
  <2>1. Paid(a) /\ charged[a] \in Nat /\ crashes \in Nat /\ req[a].post \in Posts
    BY Numbers, ReqTyped DEF PaidInv, Asks
  <2>2. ~Owed(a)' /\ (Asking(a)' <=> Asking(a))
    BY <1>1, <2>1 DEF Owed, Asking
  <2>3. B(Owed(a))' = 0 /\ B(Asking(a))' = B(Asking(a))
    BY <2>2 DEF B
  <2>4. B(Live(a))' \in 0..1 /\ B(Live(a)) \in 0..1 /\ B(Owed(a)) \in 0..1 /\ B(Asking(a)) \in 0..1
    BY DEF B
  <2>5. PICK lives : lives = B(Live(a))'
    OBVIOUS
  <2> HIDE DEF B
  <2>6. charged[a] <= B(Asking(a)) + crashes
    BY <2>1, <2>4 DEF Paid
  <2>7. charged'[a] + lives + 0 <= B(Asking(a)) + crashes'
    BY <1>1, <2>1, <2>4, <2>5, <2>6
  <2> QED
    BY <2>3, <2>5, <2>7 DEF Paid
<1> QED
  BY <1>1, <1>2 DEF PaidInv

LEMMA PaidInvKept == TypeInv /\ NameInv /\ NameInv' /\ PaidInv /\ [Next]_vars => PaidInv'
<1> SUFFICES ASSUME TypeInv, NameInv, NameInv', PaidInv, [Next]_vars PROVE PaidInv'
  OBVIOUS
<1>1. Steady
  BY NameInvKept
<1>2. CASE UNCHANGED vars \/ MonthTurns
  <2>1. UNCHANGED <<row, req, job, tick, charged, crashes>>
    BY <1>2 DEF MonthTurns
  <2>2. crashes' \in Nat /\ crashes' >= crashes
    BY <2>1, Numbers
  <2>3. ASSUME NEW a \in Requests PROVE Paid(a)'
    <3>1. PICK q \in Posts : q = req[a].post
      BY ReqTyped
    <3> QED
      BY <1>1, <2>1, <2>2, <3>1, HandsAlone, PostQuiet, OwedQuiet, PaidQuiet DEF Steady
  <2> QED
    BY <2>1, <2>3 DEF PaidInv
<1> QED
  BY <1>1, <1>2, CrashPays, BeginPays, RequestPays, PostPays, TickPays DEF Next

LEMMA PaidInvGives ==
  ASSUME TypeInv, NameInv, PaidInv
  PROVE  PaidOnce /\ PlanIsFree
<1>1. ASSUME NEW a \in Requests PROVE charged[a] <= Cardinality(Askers(a)) + crashes
  <2>1. \A r \in Requests : Asking(r) => req[r].ask = r
    BY DEF NameInv, ReqNamed, Asking
  <2>2. Askers(a) = IF Asking(a) THEN {a} ELSE {}
    BY <2>1 DEF Askers, Asking
  <2>3. Cardinality(Askers(a)) = B(Asking(a))
    BY <2>2, FS_EmptySet, FS_Singleton DEF B
  <2>4. Paid(a) /\ charged[a] \in Nat /\ crashes \in Nat
    BY Numbers DEF PaidInv, Asks
  <2>5. B(Live(a)) \in 0..1 /\ B(Owed(a)) \in 0..1 /\ B(Asking(a)) \in 0..1
    BY DEF B
  <2> HIDE DEF B
  <2>6. charged[a] <= B(Asking(a)) + crashes
    BY <2>4, <2>5 DEF Paid
  <2> QED
    BY <2>3, <2>6
<1>2. charged["plan"] <= Cardinality(Askers("plan")) + crashes
  <2>1. Askers("plan") = {}
    BY NamesAssumption DEF Askers, NameInv, ReqNamed
  <2>2. Cardinality(Askers("plan")) = 0 /\ crashes \in Nat /\ charged["plan"] = 0
    BY <2>1, FS_EmptySet, Numbers DEF PaidInv
  <2> QED
    BY <2>2
<1> QED
  BY <1>1, <1>2 DEF PaidOnce, PlanIsFree, PaidInv, Asks

\* post-copy charges an ask to ai_change_limit at most once for each time a client
\* made it, however often the sweep, the release and the queue's retries run it;
\* only a death after the post_edits row and before the job's end charges again.
THEOREM PaysOnce == Spec => []PaidOnce
<1>1. Init => TypeInv /\ NameInv /\ PaidInv
  BY TypeInvInit, NameInvInit, PaidInvInit
<1>2. TypeInv /\ NameInv /\ PaidInv /\ [Next]_vars => (TypeInv /\ NameInv /\ PaidInv)'
  BY TypeInvKept, NameInvKept, PaidInvKept
<1> QED
  BY <1>1, <1>2, PaidInvGives, PTL DEF Spec

\* No caption of the month's own plan is ever charged to ai_change_limit: what
\* post-copy counts was asked for by a client, whoever queued the job.
THEOREM PlanIsFreeHolds == Spec => []PlanIsFree
<1>1. Init => TypeInv /\ NameInv /\ PaidInv
  BY TypeInvInit, NameInvInit, PaidInvInit
<1>2. TypeInv /\ NameInv /\ PaidInv /\ [Next]_vars => (TypeInv /\ NameInv /\ PaidInv)'
  BY TypeInvKept, NameInvKept, PaidInvKept
<1> QED
  BY <1>1, <1>2, PaidInvGives, PTL DEF Spec

-----------------------------------------------------------------------------
(* How often the sweep queues a post.  Its counter travels in metadata     *)
(* that others write whole; each request on the post, and each death, may  *)
(* lose one stamp.                                                         *)

Begun == {r \in Requests : req[r].pc # "idle"}
Done(p) == {r \in Requests : req[r].pc = "done" /\ req[r].post = p}
Touch(p) == \E r \in Requests : InFlight(r) /\ req[r].post = p

\* The stamps that may be lost so far, and with the one a request may be losing.
Gone(p) == crashes + Cardinality(Done(p))
Slack(p) == Gone(p) + B(Touch(p))

At(pc, p) == \E t \in Ticks : tick[t].pc = pc /\ \E c \in tick[t].at : c.post = p

\* A sweep has selected the post and its job is not running: it may queue it.
Armed(p) ==
  /\ ~Working(p)
  /\ \E t \in Ticks : tick[t].pc \in {"sweep", "stamp"} /\ \E c \in tick[t].todo : c.post = p

\* What a copy of the metadata says of the passes: as many as it counts and may have
\* lost (Strict), or one more while the next stamp is still to come (Held).
Strict(p, m) == swept[p] <= m.sweeps + Slack(p)
Held(p, m) == swept[p] + B(Armed(p)) <= m.sweeps + Gone(p) + 1

RowSwept(p) ==
  /\ swept[p] <= MaxSweeps + Slack(p)
  /\ ~There(p) => swept[p] = 0
  /\ Held(p, row[p].meta)
  /\ Due(p) /\ ~At("stamp", p) => Strict(p, row[p].meta)

AtWork(p) == At("stamp", p) \/ At("unflag", p) => Working(p)

JobSwept(p) ==
  job[p].state = "active" /\ job[p].tries = 1 /\ job[p].isGenerating => Strict(p, job[p].meta)

ReqSwept(r) == req[r].pc \in {"bank", "mark", "patch"} => Held(req[r].post, req[r].meta)

TickSwept(t) ==
  /\ \A c \in Hands(tick[t]) : Held(c.post, c.meta)
  /\ \A c \in tick[t].todo : ~Working(c.post) => Strict(c.post, c.meta)
  /\ tick[t].pc = "unflag" => \A c \in tick[t].at : Strict(c.post, c.meta)
  /\ \A c, d \in tick[t].at : c = d

SweepInv ==
  /\ IsFiniteSet(Begun)
  /\ \A p \in Posts : RowSwept(p) /\ AtWork(p) /\ JobSwept(p)
  /\ \A r \in Requests : ReqSwept(r)
  /\ \A t \in Ticks : TickSwept(t)

LEMMA Counts ==
  ASSUME TypeInv, IsFiniteSet(Begun), NEW p \in Posts
  PROVE  /\ Gone(p) \in Nat /\ Gone(p) >= crashes /\ Slack(p) \in {Gone(p), Gone(p) + 1}
         /\ swept[p] \in Nat /\ \A m \in Meta : m.sweeps \in Nat /\ m.sweeps <= MaxSweeps
         /\ IsFiniteSet(Done(p)) /\ Cardinality(Done(p)) \in Nat /\ MaxSweeps \in Nat
<1>1. Done(p) \in SUBSET Begun
  BY DEF Done, Begun
<1>2. IsFiniteSet(Done(p)) /\ Cardinality(Done(p)) \in Nat
  BY <1>1, FS_Subset, FS_CardinalityType
<1>3. Gone(p) \in Nat /\ Gone(p) >= crashes
  BY <1>2 DEF Gone, TypeInv
<1>4. Slack(p) \in {Gone(p), Gone(p) + 1}
  BY <1>3 DEF Slack, B
<1>5. swept[p] \in Nat /\ \A m \in Meta : m.sweeps \in Nat /\ m.sweeps <= MaxSweeps
  BY LimitsAssumption DEF TypeInv, Meta
<1> QED
  BY <1>2, <1>3, <1>4, <1>5, LimitsAssumption

LEMMA SweepInvInit == Init => SweepInv
<1> SUFFICES ASSUME Init PROVE SweepInv
  OBVIOUS
<1>1. TypeInv /\ NameInv
  BY TypeInvInit, NameInvInit
<1>2. Begun = {} /\ IsFiniteSet(Begun)
  <2>1. Begun = {}
    BY DEF Init, Begun
  <2> QED
    BY <2>1, FS_EmptySet
<1>3. \A t \in Ticks : tick[t].pc = "idle" /\ tick[t].todo = {} /\ tick[t].at = {}
  BY DEF Init, IdleTick
<1>4. ASSUME NEW p \in Posts PROVE RowSwept(p) /\ AtWork(p) /\ JobSwept(p)
  <2>1. swept[p] = 0 /\ ~Armed(p) /\ ~At("stamp", p) /\ ~At("unflag", p)
    BY <1>3 DEF Init, Armed, At
  <2>2. job[p].state # "active"
    BY DEF Init, Queued, NoJob
  <2>3. Gone(p) \in Nat /\ Slack(p) \in Nat /\ row[p].meta.sweeps \in Nat /\ MaxSweeps \in Nat
    BY <1>1, <1>2, Counts, RowTyped
  <2> QED
    BY <2>1, <2>2, <2>3 DEF RowSwept, AtWork, JobSwept, Held, Strict, B
<1>5. \A r \in Requests : ReqSwept(r)
  BY DEF Init, ReqSwept
<1>6. \A t \in Ticks : TickSwept(t)
  BY <1>3 DEF TickSwept, Hands
<1> QED
  BY <1>2, <1>4, <1>5, <1>6 DEF SweepInv

\* What may have been lost never shrinks; a request that ends and a death add to it.
LEMMA CountsGrow ==
  ASSUME TypeInv, TypeInv', IsFiniteSet(Begun), IsFiniteSet(Begun)', Steady, crashes' >= crashes,
         NEW p \in Posts
  PROVE  /\ Gone(p) \in Nat /\ Gone(p)' \in Nat /\ Slack(p) \in {Gone(p), Gone(p) + 1}
         /\ Slack(p)' \in {Gone(p)', Gone(p)' + 1}
         /\ Gone(p)' >= Gone(p) /\ Slack(p)' >= Slack(p)
         /\ crashes' = crashes + 1 => Gone(p)' >= Gone(p) + 1
         /\ \A r \in Requests : InFlight(r) /\ req[r].post = p /\ req'[r].pc = "done" => Gone(p)' >= Gone(p) + 1
<1>1. /\ Gone(p) \in Nat /\ Slack(p) \in {Gone(p), Gone(p) + 1}
      /\ IsFiniteSet(Done(p)) /\ Cardinality(Done(p)) \in Nat
  BY Counts
<1>2. /\ Gone(p)' \in Nat /\ Slack(p)' \in {Gone(p)', Gone(p)' + 1}
      /\ IsFiniteSet(Done(p))' /\ Cardinality(Done(p))' \in Nat
  <2>1. Done(p)' \in SUBSET Begun'
    BY DEF Done, Begun
  <2>2. IsFiniteSet(Done(p)') /\ Cardinality(Done(p)') \in Nat
    BY <2>1, FS_Subset, FS_CardinalityType
  <2>3. Gone(p)' \in Nat
    BY <2>2 DEF Gone, TypeInv
  <2>4. Slack(p)' \in {Gone(p)', Gone(p)' + 1}
    BY <2>3 DEF Slack, B
  <2> QED
    BY <2>2, <2>3, <2>4
<1>3. Done(p) \in SUBSET Done(p)'
  BY DEF Done, Steady, ReqsSteady
<1>4. Cardinality(Done(p)) <= Cardinality(Done(p)')
  BY <1>2, <1>3, FS_Subset
<1>5. Gone(p)' >= Gone(p) /\ (crashes' = crashes + 1 => Gone(p)' >= Gone(p) + 1)
  BY <1>1, <1>2, <1>4 DEF Gone, TypeInv
<1>6. ASSUME NEW r \in Requests, InFlight(r), req[r].post = p, req'[r].pc = "done"
      PROVE  Gone(p)' >= Gone(p) + 1
  <2>1. r \notin Done(p) /\ Done(p) \cup {r} \in SUBSET Done(p)'
    BY <1>3, <1>6 DEF Done, InFlight, Steady, ReqsSteady
  <2>2. Cardinality(Done(p) \cup {r}) = Cardinality(Done(p)) + 1
    BY <1>1, <2>1, FS_AddElement
  <2>3. Cardinality(Done(p)) + 1 <= Cardinality(Done(p)')
    BY <1>2, <2>1, <2>2, FS_Subset
  <2> QED
    BY <1>1, <1>2, <2>3 DEF Gone, TypeInv
<1>7. Slack(p)' >= Slack(p)
  <2>1. CASE Touch(p) /\ ~Touch(p)'
    <3>1. PICK r \in Requests : InFlight(r) /\ req[r].post = p
      BY <2>1 DEF Touch
    <3>2. req'[r].pc = "done"
      BY <2>1, <3>1 DEF Touch, InFlight, Steady, ReqsSteady
    <3> QED
      BY <1>1, <1>2, <1>6, <3>1, <3>2
  <2>2. CASE Touch(p)'
    <3>1. Slack(p)' = Gone(p)' + 1
      BY <2>2 DEF Slack, B
    <3> QED
      BY <1>1, <1>2, <1>5, <3>1
  <2>3. CASE ~Touch(p)
    <3>1. Slack(p) = Gone(p)
      BY <1>1, <2>3 DEF Slack, B
    <3> QED
      BY <1>1, <1>2, <1>5, <3>1
  <2> QED
    BY <2>1, <2>2, <2>3
<1> QED
  BY <1>1, <1>2, <1>5, <1>6, <1>7

LEMMA BegunFinite ==
  ASSUME TypeInv, IsFiniteSet(Begun), UNCHANGED req \/ \E r \in Requests : ReqAt(r)
  PROVE  IsFiniteSet(Begun')
<1>1. CASE UNCHANGED req
  BY <1>1 DEF Begun
<1>2. ASSUME NEW r \in Requests, ReqAt(r) PROVE IsFiniteSet(Begun')
  <2>1. Begun' \in SUBSET (Begun \cup {r})
    BY <1>2 DEF ReqAt, Begun
  <2> QED
    BY <2>1, FS_AddElement, FS_Subset
<1> QED
  BY <1>1, <1>2

\* A step of the specification, of which the sweep's facts still have to be shown.
Moving ==
  /\ TypeInv /\ TypeInv' /\ NameInv /\ SweepInv /\ Steady
  /\ IsFiniteSet(Begun') /\ crashes' >= crashes

LEMMA MovingCounts ==
  ASSUME Moving, NEW p \in Posts
  PROVE  /\ Gone(p) \in Nat /\ Gone(p)' \in Nat /\ Slack(p) \in {Gone(p), Gone(p) + 1}
         /\ Slack(p)' \in {Gone(p)', Gone(p)' + 1}
         /\ Gone(p)' >= Gone(p) /\ Slack(p)' >= Slack(p)
         /\ crashes' = crashes + 1 => Gone(p)' >= Gone(p) + 1
         /\ \A r \in Requests : InFlight(r) /\ req[r].post = p /\ req'[r].pc = "done" => Gone(p)' >= Gone(p) + 1
         /\ swept[p] \in Nat /\ swept'[p] \in Nat /\ MaxSweeps \in Nat
         /\ \A m \in Meta : m.sweeps \in Nat /\ m.sweeps <= MaxSweeps
<1>1. TypeInv /\ TypeInv' /\ IsFiniteSet(Begun) /\ IsFiniteSet(Begun)' /\ Steady /\ crashes' >= crashes
  BY DEF Moving, SweepInv
<1>2. swept'[p] \in Nat
  BY <1>1 DEF TypeInv
<1> QED
  BY <1>1, <1>2, CountsGrow, Counts

\* A post the step does not queue, and no tick newly arms: what its copies say stays true.
LEMMA CopiesLast ==
  ASSUME Moving, NEW p \in Posts, swept'[p] = swept[p], Armed(p)' => Armed(p)
  PROVE  \A m \in Meta : (Held(p, m) => Held(p, m)') /\ (Strict(p, m) => Strict(p, m)')
<1> SUFFICES ASSUME NEW m \in Meta
             PROVE  (Held(p, m) => Held(p, m)') /\ (Strict(p, m) => Strict(p, m)')
  OBVIOUS
<1>1. PICK armed : armed = B(Armed(p))
  OBVIOUS
<1>2. PICK arms : arms = B(Armed(p))'
  OBVIOUS
<1>3. armed \in 0..1 /\ arms \in 0..1 /\ arms <= armed
  BY <1>1, <1>2 DEF B
<1>4. (Held(p, m) <=> swept[p] + armed <= m.sweeps + Gone(p) + 1)
      /\ (Held(p, m)' <=> swept'[p] + arms <= m.sweeps + Gone(p)' + 1)
  BY <1>1, <1>2 DEF Held
<1>5. (Strict(p, m) <=> swept[p] <= m.sweeps + Slack(p))
      /\ (Strict(p, m)' <=> swept'[p] <= m.sweeps + Slack(p)')
  BY DEF Strict
<1>6. PICK g \in Nat, g1 \in Nat, s \in Nat, s1 \in Nat :
        g = Gone(p) /\ g1 = Gone(p)' /\ s = Slack(p) /\ s1 = Slack(p)' /\ g1 >= g /\ s1 >= s
  BY MovingCounts
<1>7. m.sweeps \in Nat /\ swept[p] \in Nat
  BY MovingCounts
<1> QED
  BY <1>3, <1>4, <1>5, <1>6, <1>7

\* While no sweep has it armed, a copy that is strict is held; while a request may be
\* losing a stamp, and once it has, one that is held is strict.
LEMMA StrictHeld ==
  ASSUME Moving, NEW p \in Posts, NEW m \in Meta
  PROVE  /\ Strict(p, m)' /\ ~Armed(p)' => Held(p, m)'
         /\ Strict(p, m)' /\ Slack(p)' = Gone(p)' => Held(p, m)'
         /\ Held(p, m) /\ Slack(p) = Gone(p) + 1 => Strict(p, m)
         /\ Held(p, m) /\ swept'[p] = swept[p] /\ Slack(p)' >= Gone(p) + 1 => Strict(p, m)'
<1>1. PICK armed : armed = B(Armed(p))
  OBVIOUS
<1>2. PICK arms : arms = B(Armed(p))'
  OBVIOUS
<1>3. armed \in 0..1 /\ arms \in 0..1 /\ (~Armed(p)' => arms = 0)
  BY <1>1, <1>2 DEF B
<1>4. (Held(p, m) <=> swept[p] + armed <= m.sweeps + Gone(p) + 1)
      /\ (Held(p, m)' <=> swept'[p] + arms <= m.sweeps + Gone(p)' + 1)
  BY <1>1, <1>2 DEF Held
<1>5. (Strict(p, m) <=> swept[p] <= m.sweeps + Slack(p))
      /\ (Strict(p, m)' <=> swept'[p] <= m.sweeps + Slack(p)')
  BY DEF Strict
<1>6. PICK g \in Nat, g1 \in Nat, s \in Nat, s1 \in Nat :
        g = Gone(p) /\ g1 = Gone(p)' /\ s = Slack(p) /\ s1 = Slack(p)' /\ s1 <= g1 + 1
  BY MovingCounts
<1>7. m.sweeps \in Nat /\ swept[p] \in Nat /\ swept'[p] \in Nat
  BY MovingCounts
<1> QED
  BY <1>3, <1>4, <1>5, <1>6, <1>7

LEMMA RowKeeps ==
  ASSUME Moving, NEW p \in Posts, swept'[p] = swept[p], Armed(p)' => Armed(p),
         row'[p].meta.sweeps = row[p].meta.sweeps,
         Due(p)' /\ ~At("stamp", p)' => (Due(p) /\ ~At("stamp", p)) \/ Slack(p)' >= Gone(p) + 1
  PROVE  RowSwept(p)'
<1>1. RowSwept(p) /\ row[p].meta \in Meta /\ row'[p].meta \in Meta
  <2>1. row' \in [Posts -> Rows] /\ row \in [Posts -> Rows]
    BY DEF Moving, TypeInv
  <2> QED
    BY <2>1 DEF Moving, SweepInv, Rows
<1>2. PICK m \in Meta : m = row[p].meta
  BY <1>1
<1>3. Held(p, m)' /\ (Due(p)' /\ ~At("stamp", p)' => Strict(p, m)')
  BY <1>1, <1>2, CopiesLast, StrictHeld DEF RowSwept
<1>4. Held(p, row[p].meta)' /\ (Due(p)' /\ ~At("stamp", p)' => Strict(p, row[p].meta)')
  BY <1>2, <1>3 DEF Held, Strict
<1>5. swept'[p] <= MaxSweeps + Slack(p)'
  BY <1>1, MovingCounts DEF RowSwept
<1>6. ~There(p)' => swept'[p] = 0
  BY <1>1 DEF RowSwept, Moving, Steady, RowsSteady
<1> QED
  BY <1>4, <1>5, <1>6 DEF RowSwept

LEMMA RowTakes ==
  ASSUME Moving, NEW p \in Posts, There(p)', swept'[p] = swept[p],
         NEW m \in Meta, row'[p].meta.sweeps = m.sweeps, Held(p, m)',
         Due(p)' /\ ~At("stamp", p)' => Strict(p, m)'
  PROVE  RowSwept(p)'
<1>1. RowSwept(p)
  BY DEF Moving, SweepInv
<1>2. swept'[p] <= MaxSweeps + Slack(p)'
  BY <1>1, MovingCounts DEF RowSwept
<1>3. Held(p, row[p].meta)' /\ (Due(p)' /\ ~At("stamp", p)' => Strict(p, row[p].meta)')
  BY DEF Held, Strict
<1> QED
  BY <1>2, <1>3 DEF RowSwept

\* The ticks stand still, and no job stops that a tick has in hand.
LEMMA TicksStand ==
  ASSUME Moving, UNCHANGED <<tick, swept>>,
         \A p \in Posts : Working(p) => Working(p)' \/ Timely(p)
  PROVE  /\ \A p \in Posts : /\ swept'[p] = swept[p] /\ (Armed(p)' => Armed(p)) /\ AtWork(p)'
                             /\ \A pc : At(pc, p)' <=> At(pc, p)
         /\ \A t \in Ticks : TickSwept(t)'
<1>1. ASSUME NEW p \in Posts
      PROVE  /\ swept'[p] = swept[p] /\ (Armed(p)' => Armed(p)) /\ AtWork(p)'
             /\ \A pc : At(pc, p)' <=> At(pc, p)
  <2>1. \A pc : At(pc, p)' <=> At(pc, p)
    BY DEF At
  <2>2. AtWork(p)
    BY DEF Moving, SweepInv
  <2>3. \A pc : At(pc, p) => ~Timely(p)
    BY DEF At, Timely
  <2>4. Armed(p)' => Armed(p)
    BY DEF Armed, Timely
  <2> QED
    BY <2>1, <2>2, <2>3, <2>4 DEF AtWork
<1>2. ASSUME NEW t \in Ticks PROVE TickSwept(t)'
  <2>1. TickSwept(t) /\ \A c \in Hands(tick[t]) : c.post \in Posts /\ c.meta \in Meta
    BY HeldIsCandidate DEF Moving, SweepInv
  <2>2. ASSUME NEW c \in Hands(tick[t])
        PROVE  (Held(c.post, c.meta) => Held(c.post, c.meta)') /\ (Strict(c.post, c.meta) => Strict(c.post, c.meta)')
    BY <1>1, <2>1, CopiesLast
  <2>3. ASSUME NEW c \in tick[t].todo, ~Working(c.post)' PROVE ~Working(c.post)
    <3>1. ~Timely(c.post) /\ c.post \in Posts
      BY <2>1 DEF Timely, Hands
    <3> QED
      BY <2>3, <3>1
  <2> QED
    BY <2>1, <2>2, <2>3 DEF TickSwept, Hands
<1> QED
  BY <1>1, <1>2

\* A request that stands still keeps its copy.
LEMMA RequestStands ==
  ASSUME Moving, NEW r \in Requests, req'[r] = req[r],
         \A p \in Posts : swept'[p] = swept[p] /\ (Armed(p)' => Armed(p))
  PROVE  ReqSwept(r)'
<1>1. ReqSwept(r) /\ req[r].post \in Posts /\ req[r].meta \in Meta
  BY ReqTyped DEF Moving, SweepInv
<1>2. PICK p \in Posts, m \in Meta : p = req[r].post /\ m = req[r].meta
  BY <1>1
<1>3. Held(p, m) => Held(p, m)'
  BY <1>2, CopiesLast
<1> QED
  BY <1>1, <1>2, <1>3 DEF ReqSwept, Held

\* A job that is not at its last generating attempt has no copy; one that stands keeps it.
LEMMA JobStands ==
  ASSUME Moving, NEW p \in Posts, swept'[p] = swept[p], Armed(p)' => Armed(p),
         job'[p] = job[p] \/ job'[p].state # "active"
  PROVE  JobSwept(p)'
<1>1. JobSwept(p) /\ job[p].meta \in Meta
  BY JobTypedNow DEF Moving, SweepInv
<1>2. PICK m \in Meta : m = job[p].meta
  BY <1>1
<1>3. Strict(p, m) => Strict(p, m)'
  BY CopiesLast
<1> QED
  BY <1>1, <1>2, <1>3 DEF JobSwept, Strict

\* What a request does to the sweep's facts: its own row and its own copy are left to show.
LEMMA RequestSweeps ==
  ASSUME TypeInv, TypeInv', NameInv, SweepInv, Steady, crashes' >= crashes,
         NEW r \in Requests, ReqAt(r), UNCHANGED <<tick, swept>>, NEW p \in Posts,
         UNCHANGED row \/ RowAt(p),
         UNCHANGED job \/ (JobAt(p) /\ ~Busy(p) /\ job'[p].state = "waiting"),
         Moving => (row'[p] = row[p] \/ RowSwept(p)') /\ ReqSwept(r)'
  PROVE  SweepInv'
<1>1. Moving
  BY BegunFinite DEF Moving, SweepInv
<1>2. \A q \in Posts : Working(q) => Working(q)'
  BY DEF Working, JobAt, Busy
<1>3. /\ \A q \in Posts : /\ swept'[q] = swept[q] /\ (Armed(q)' => Armed(q)) /\ AtWork(q)'
                          /\ \A pc : At(pc, q)' <=> At(pc, q)
      /\ \A t \in Ticks : TickSwept(t)'
  BY <1>1, <1>2, TicksStand
<1>4. ASSUME NEW q \in Posts PROVE RowSwept(q)'
  <2>1. CASE row'[q] = row[q]
    BY <1>1, <1>3, <2>1, RowKeeps DEF Due
  <2>2. CASE row'[q] # row[q]
    <3>1. q = p
      BY <2>2 DEF RowAt
    <3> QED
      BY <1>1, <2>2, <3>1
  <2> QED
    BY <2>1, <2>2
<1>5. ASSUME NEW q \in Posts PROVE JobSwept(q)'
  <2>1. job'[q] = job[q] \/ job'[q].state # "active"
    BY DEF JobAt
  <2> QED
    BY <1>1, <1>3, <2>1, JobStands
<1>6. ASSUME NEW s \in Requests PROVE ReqSwept(s)'
  <2>1. CASE s = r
    BY <1>1, <2>1
  <2>2. CASE s # r
    BY <1>1, <1>3, <2>2, RequestStands DEF ReqAt
  <2> QED
    BY <2>1, <2>2
<1>7. (\A t \in Ticks : TickSwept(t))'
  BY <1>3
<1> QED
  BY <1>1, <1>3, <1>4, <1>5, <1>6, <1>7 DEF SweepInv, Moving

LEMMA BeginSweeps ==
  ASSUME TypeInv, TypeInv', NameInv, SweepInv, Steady, NEW r \in Requests, NEW p \in Posts, RequestBegins(r, p)
  PROVE  SweepInv'
<1>0. crashes \in Nat
  BY DEF TypeInv
<1>1. RowSwept(p) /\ RowNamed(p) /\ row[p].meta \in Meta
  BY RowTyped DEF SweepInv, NameInv
<1>2. CASE AskForAdd(r, p)
  <2>1. /\ ~There(p) /\ RowAt(p) /\ There(p)' /\ row'[p].meta.sweeps = 0
        /\ Begins(r, "check", "generate", p, r) /\ UNCHANGED <<job, tick, swept, crashes>>
    BY <1>2, AddDoes DEF There
  <2>2. ASSUME Moving PROVE RowSwept(p)' /\ ReqSwept(r)'
    <3>1. swept'[p] = 0 /\ NoMeta \in Meta /\ row'[p].meta.sweeps = NoMeta.sweeps /\ NoMeta.sweeps = 0
      BY <1>1, <2>1, NoMetaIs DEF RowSwept
    <3>2. Gone(p)' \in Nat /\ Slack(p)' \in {Gone(p)', Gone(p)' + 1} /\ swept'[p] = swept[p]
      BY <2>1, <2>2, MovingCounts
    <3>3. Held(p, NoMeta)' /\ Strict(p, NoMeta)'
      BY <3>1, <3>2 DEF Held, Strict, B
    <3> QED
      BY <2>1, <2>2, <3>1, <3>2, <3>3, RowTakes DEF ReqSwept, Begins
  <2> QED
    BY <1>0, <2>1, <2>2, RequestSweeps DEF Begins
<1>3. CASE AskWithSubject(r, p)
  <2>1. /\ There(p) /\ RowAt(p) /\ row'[p].status = row[p].status /\ row'[p].meta.sweeps = row[p].meta.sweeps
        /\ Begins(r, "check", "generate", p, r) /\ UNCHANGED <<job, tick, swept, crashes>>
    BY <1>3, SubjectDoes DEF There
  <2>2. ASSUME Moving PROVE RowSwept(p)' /\ ReqSwept(r)'
    <3>1. swept'[p] = swept[p] /\ (Armed(p)' => Armed(p)) /\ (At("stamp", p)' <=> At("stamp", p))
      BY <2>1 DEF Armed, Working, At
    <3> QED
      BY <2>1, <2>2, <3>1, RowKeeps DEF ReqSwept, Begins, Due
  <2> QED
    BY <1>0, <2>1, <2>2, RequestSweeps DEF Begins
<1>4. CASE AskForRewrite(r, p)
  <2>1. Begins(r, "check", "rewrite", p, r) /\ UNCHANGED <<row, job, tick, swept, crashes>>
    BY <1>4, RewriteDoes
  <2>2. ReqSwept(r)'
    BY <2>1 DEF ReqSwept, Begins
  <2> QED
    BY <1>0, <2>1, <2>2, RequestSweeps DEF Begins
<1>5. CASE PatchReads(r, p)
  <2>1. PICK kind \in {"edit", "time"} : Begins(r, "patch", kind, p, "plan")
    BY <1>5, PatchReadsDoes
  <2>2. UNCHANGED <<row, job, tick, swept, crashes>>
    BY <1>5, PatchReadsDoes
  <2>3. ASSUME Moving PROVE ReqSwept(r)'
    <3>1. swept'[p] = swept[p] /\ (Armed(p)' => Armed(p))
      BY <2>2 DEF Armed, Working
    <3>2. PICK m \in Meta : m = row[p].meta
      BY <1>1
    <3>3. Held(p, m)'
      BY <1>1, <2>3, <3>1, <3>2, CopiesLast DEF RowSwept
    <3>4. req'[r].post = p /\ req'[r].meta = m
      BY <2>1, <3>2 DEF Begins
    <3> QED
      BY <3>3, <3>4 DEF ReqSwept, Held
  <2> QED
    BY <1>0, <2>1, <2>2, <2>3, RequestSweeps DEF Begins
<1> QED
  BY <1>2, <1>3, <1>4, <1>5 DEF RequestBegins

LEMMA RequestStepSweeps ==
  ASSUME TypeInv, TypeInv', NameInv, SweepInv, Steady, NEW r \in Requests, RequestStep(r) \/ AppCrash(r)
  PROVE  SweepInv'
<1>p. PICK p \in Posts : p = req[r].post
  BY ReqTyped
<1>0. InFlight(r) /\ crashes \in Nat
  BY DEF InFlight, RequestStep, AppCrash, Check, Bank, Mark, Enqueue, EnqueueError, Refused, PatchWrites, TypeInv
<1>1. /\ RowSwept(p) /\ ReqSwept(r) /\ row[p].meta \in Meta /\ req[r].meta \in Meta
      /\ There(p) /\ (RowsSteady => There(p)')
  BY <1>0, <1>p, RowTyped, ReqTyped DEF SweepInv, NameInv, ReqNamed, InFlight, RowsSteady
<1>2. \A pc : ReqGoes(r, pc) /\ pc \notin {"bank", "mark", "patch"} => ReqAt(r) /\ ReqSwept(r)'
  BY DEF ReqGoes, ReqSwept
<1>3. ASSUME UNCHANGED <<tick, job, swept>>
      PROVE  swept'[p] = swept[p] /\ (Armed(p)' => Armed(p)) /\ (At("stamp", p)' <=> At("stamp", p))
  BY <1>3 DEF Armed, Working, At
\* The row it writes comes from its copy, and the request ends or is still under way.
<1>4. ASSUME Moving, UNCHANGED <<tick, job, swept>>, NEW m \in Meta, row'[p].meta.sweeps = m.sweeps,
             Held(p, m), req'[r].pc = "done" \/ req'[r].pc = "enqueue"
      PROVE  RowSwept(p)'
  <2>1. Slack(p)' >= Gone(p) + 1
    <3>1. CASE req'[r].pc = "done"
      BY <1>0, <1>p, <1>4, <3>1, MovingCounts
    <3>2. CASE req'[r].pc = "enqueue"
      <4>1. Touch(p)'
        BY <1>0, <1>p, <1>4, <3>2 DEF Touch, InFlight, Moving, Steady, ReqsSteady
      <4>2. Slack(p)' = Gone(p)' + 1
        BY <4>1 DEF Slack, B
      <4> QED
        BY <1>4, <4>2, MovingCounts
    <3> QED
      BY <1>4, <3>1, <3>2
  <2>2. Held(p, m)' /\ Strict(p, m)'
    BY <1>3, <1>4, <2>1, CopiesLast, StrictHeld
  <2>3. There(p)'
    BY <1>1, <1>4 DEF Moving, Steady
  <2> QED
    BY <1>3, <1>4, <2>2, <2>3, RowTakes
<1>5. CASE Check(r)
  <2>1. req[r].pc = "check" /\ UNCHANGED <<row, job, tick, swept, crashes>>
    BY <1>5, CheckDoes
  <2>2. CASE ReqGoes(r, "done") \/ ReqGoes(r, "enqueue")
    BY <1>0, <1>2, <2>1, <2>2, RequestSweeps
  <2>3. ASSUME NEW pc \in {"bank", "mark"}, ReqGoes(r, pc), req'[r].meta = row[p].meta PROVE SweepInv'
    <3>1. ASSUME Moving PROVE ReqSwept(r)'
      <4>1. PICK m \in Meta : m = row[p].meta
        BY <1>1
      <4>2. Held(p, m)'
        BY <1>1, <1>3, <2>1, <3>1, <4>1, CopiesLast DEF RowSwept
      <4>3. req'[r].post = p /\ req'[r].meta = m
        BY <1>p, <2>3, <4>1 DEF ReqGoes
      <4> QED
        BY <4>2, <4>3 DEF ReqSwept, Held
    <3> QED
      BY <1>0, <2>1, <2>3, <3>1, RequestSweeps DEF ReqGoes
  <2> QED
    BY <1>p, <1>5, <2>2, <2>3, CheckDoes
<1>6. CASE Bank(r)
  <2>1. PICK m \in Meta :
          /\ req[r].pc = "bank" /\ ReqGoes(r, "done") /\ RowBecomes(p, "generation_failed", m)
          /\ m.sweeps = req[r].meta.sweeps /\ UNCHANGED <<job, tick, swept, crashes>>
    BY <1>p, <1>6, BankDoes
  <2>2. ASSUME Moving PROVE RowSwept(p)'
    BY <1>p, <1>1, <1>4, <2>1, <2>2 DEF ReqSwept, RowBecomes, ReqGoes
  <2> QED
    BY <1>0, <1>2, <2>1, <2>2, RequestSweeps DEF RowBecomes
<1>7. CASE Mark(r)
  <2>1. PICK m \in Meta :
          /\ req[r].pc = "mark" /\ ReqGoes(r, "enqueue") /\ RowBecomes(p, "generating", m)
          /\ m.sweeps = req[r].meta.sweeps /\ UNCHANGED <<job, tick, swept, crashes>>
    BY <1>p, <1>7, MarkDoes
  <2>2. ASSUME Moving PROVE RowSwept(p)'
    BY <1>p, <1>1, <1>4, <2>1, <2>2 DEF ReqSwept, RowBecomes, ReqGoes
  <2> QED
    BY <1>0, <1>2, <2>1, <2>2, RequestSweeps DEF RowBecomes
<1>8. CASE Enqueue(r)
  <2>1. /\ ReqGoes(r, "done") /\ UNCHANGED <<row, tick, swept, crashes>>
        /\ UNCHANGED job \/ (JobAt(p) /\ ~Busy(p) /\ job'[p].state = "waiting")
    <3>1. Queued(req[r].ask, TRUE).state = "waiting"
      BY DEF Queued
    <3> QED
      BY <1>p, <1>8, <3>1, EnqueueDoes
  <2> QED
    BY <1>0, <1>2, <2>1, RequestSweeps
<1>9. CASE EnqueueError(r)
  <2>1. UNCHANGED <<row, job, tick, swept, crashes>> /\ (ReqGoes(r, "done") \/ ReqGoes(r, "refused"))
    BY <1>9, EnqueueErrorDoes
  <2> QED
    BY <1>0, <1>2, <2>1, RequestSweeps
<1>10. CASE Refused(r)
  <2>1. ReqGoes(r, "done") /\ UNCHANGED <<job, tick, swept, crashes>>
    BY <1>10, RefusedDoes
  <2>2. CASE UNCHANGED row
    BY <1>0, <1>2, <2>1, <2>2, RequestSweeps
  <2>3. ASSUME NEW m \in Meta, RowBecomes(p, "generation_failed", m), Same(m, row[p].meta) PROVE SweepInv'
    <3>1. ASSUME Moving PROVE RowSwept(p)'
      BY <1>1, <1>4, <2>1, <2>3, <3>1 DEF RowSwept, Same, RowBecomes, ReqGoes
    <3> QED
      BY <1>0, <1>2, <2>1, <2>3, <3>1, RequestSweeps DEF RowBecomes
  <2> QED
    BY <1>p, <1>10, <2>2, <2>3, RefusedDoes
<1>11. CASE PatchWrites(r)
  <2>1. req[r].pc = "patch" /\ ReqGoes(r, "done") /\ UNCHANGED <<job, tick, swept, crashes>>
    BY <1>11, PatchWritesDoes
  <2>2. PICK status \in {"new", "edited"}, m \in {req[r].meta, row[p].meta} : RowBecomes(p, status, m)
    BY <1>p, <1>11, PatchWritesDoes
  <2>3. ASSUME Moving PROVE RowSwept(p)'
    BY <1>p, <1>1, <1>4, <2>1, <2>2, <2>3 DEF RowSwept, ReqSwept, RowBecomes, ReqGoes
  <2> QED
    BY <1>0, <1>2, <2>1, <2>2, <2>3, RequestSweeps DEF RowBecomes
<1>12. CASE AppCrash(r)
  <2>1. ReqGoes(r, "done") /\ UNCHANGED <<row, job, tick, swept>> /\ crashes' = crashes + 1
    BY <1>12, AppCrashDoes
  <2> QED
    BY <1>0, <1>2, <2>1, RequestSweeps
<1> QED
  BY <1>5, <1>6, <1>7, <1>8, <1>9, <1>10, <1>11, <1>12 DEF RequestStep

\* A post or its job moves while every request and tick stands still.
LEMMA PostSweeps ==
  ASSUME TypeInv, TypeInv', NameInv, SweepInv, Steady, UNCHANGED <<req, tick, swept, crashes>>,
         NEW p \in Posts, UNCHANGED row \/ RowAt(p), UNCHANGED job \/ JobAt(p),
         Working(p) => Working(p)' \/ Timely(p),
         Moving /\ (Armed(p)' => Armed(p)) /\ (At("stamp", p)' <=> At("stamp", p))
           => (row'[p] = row[p] \/ RowSwept(p)') /\ JobSwept(p)'
  PROVE  SweepInv'
<1>1. Moving
  BY BegunFinite DEF Moving, SweepInv, TypeInv
<1>2. \A q \in Posts : Working(q) => Working(q)' \/ Timely(q)
  BY DEF Working, JobAt
<1>3. /\ \A q \in Posts : /\ swept'[q] = swept[q] /\ (Armed(q)' => Armed(q)) /\ AtWork(q)'
                          /\ \A pc : At(pc, q)' <=> At(pc, q)
      /\ \A t \in Ticks : TickSwept(t)'
  BY <1>1, <1>2, TicksStand
<1>4. ASSUME NEW q \in Posts PROVE RowSwept(q)'
  <2>1. CASE row'[q] = row[q]
    BY <1>1, <1>3, <2>1, RowKeeps DEF Due
  <2>2. CASE row'[q] # row[q]
    BY <1>1, <1>3, <2>2 DEF RowAt
  <2> QED
    BY <2>1, <2>2
<1>5. ASSUME NEW q \in Posts PROVE JobSwept(q)'
  <2>1. CASE q = p
    BY <1>1, <1>3, <2>1
  <2>2. CASE q # p
    <3>1. job'[q] = job[q]
      BY <2>2 DEF JobAt
    <3> QED
      BY <1>1, <1>3, <3>1, JobStands
  <2> QED
    BY <2>1, <2>2
<1>6. \A s \in Requests : ReqSwept(s)'
  BY <1>1, <1>3, RequestStands
<1>7. (\A t \in Ticks : TickSwept(t))'
  BY <1>3
<1> QED
  BY <1>1, <1>3, <1>4, <1>5, <1>6, <1>7 DEF SweepInv, Moving

LEMMA PostStepSweeps ==
  ASSUME TypeInv, TypeInv', NameInv, SweepInv, Steady, NEW p \in Posts,
         JobStep(p) \/ Remove(p) \/ Revert(p) \/ Ages(p) \/ DayPasses(p)
  PROVE  SweepInv'
<1>1. /\ RowSwept(p) /\ JobSwept(p) /\ JobNamed(p) /\ row[p].meta \in Meta /\ job[p].meta \in Meta
      /\ job[p].tries \in Nat
  BY RowTyped, JobTypedNow, LimitsAssumption DEF SweepInv, NameInv, Jobs
<1>2. CASE Remove(p) \/ Revert(p) \/ Ages(p) \/ DayPasses(p)
  <2>1. /\ RowAt(p) /\ row'[p].meta = row[p].meta /\ (Due(p)' => Due(p))
        /\ UNCHANGED <<job, req, tick, swept, crashes>>
    BY <1>2, RemoveDoes, RevertDoes, AgesDoes, DayPassesDoes DEF RowSame, Due
  <2>2. ASSUME Moving, Armed(p)' => Armed(p), At("stamp", p)' <=> At("stamp", p)
        PROVE  RowSwept(p)' /\ JobSwept(p)'
    BY <2>1, <2>2, RowKeeps, JobStands
  <2> QED
    BY <2>1, <2>2, PostSweeps DEF Working
<1>3. CASE JobStarts(p)
  <2>1. /\ job[p].state = "waiting" /\ (job[p].tries = 1 => Timely(p)) /\ JobGoes(p, "active")
        /\ job'[p].tries = job[p].tries /\ job'[p].meta = row[p].meta /\ (job'[p].isGenerating <=> Due(p))
        /\ UNCHANGED <<row, req, tick, swept, crashes>>
    BY <1>3, JobStartsDoes DEF Due
  <2>2. ASSUME Moving, Armed(p)' => Armed(p) PROVE JobSwept(p)'
    <3>1. PICK m \in Meta : m = row[p].meta
      BY <1>1
    <3>2. job[p].tries = 1 /\ Due(p) => Strict(p, m)
      BY <1>1, <2>1, <3>1 DEF RowSwept, At, Timely
    <3>3. Strict(p, m) => Strict(p, m)'
      BY <2>1, <2>2, CopiesLast
    <3> QED
      BY <2>1, <3>1, <3>2, <3>3 DEF JobSwept, Strict
  <2> QED
    BY <2>1, <2>2, PostSweeps DEF JobGoes, Working
<1>4. CASE JobWrites(p)
  <2>1. /\ Timely(p) /\ RowAt(p) /\ row'[p].meta = row[p].meta /\ ~Due(p)' /\ JobGoes(p, "written")
        /\ UNCHANGED <<req, tick, swept, crashes>>
    BY <1>4, JobWritesDoes DEF RowSame, Due
  <2>2. ASSUME Moving, Armed(p)' => Armed(p) PROVE RowSwept(p)' /\ JobSwept(p)'
    BY <2>1, <2>2, RowKeeps, JobStands DEF JobGoes
  <2> QED
    BY <2>1, <2>2, PostSweeps DEF JobGoes
<1>5. CASE JobBills(p)
  <2>1. job[p].state = "written" /\ JobGoes(p, "billed") /\ UNCHANGED <<row, req, tick, swept, crashes>>
    BY <1>5, JobBillsDoes
  <2>2. ASSUME Moving, Armed(p)' => Armed(p) PROVE JobSwept(p)'
    BY <2>1, <2>2, JobStands DEF JobGoes
  <2> QED
    BY <2>1, <2>2, PostSweeps DEF JobGoes, Working
<1>6. CASE JobThrows(p)
  <2>1. /\ job[p].state = "active" /\ Timely(p) /\ UNCHANGED <<req, tick, swept, crashes>>
        /\ JobGoes(p, "waiting") \/ JobGoes(p, "threw")
    BY <1>6, JobThrowsDoes
  <2>2. ASSUME Moving, Armed(p)' => Armed(p) PROVE JobSwept(p)'
    BY <2>1, <2>2, JobStands DEF JobGoes
  <2>3. CASE UNCHANGED row
    BY <2>1, <2>2, <2>3, PostSweeps DEF JobGoes
  <2>4. ASSUME NEW m \in Meta, job[p].isGenerating, job[p].tries = 1, Same(m, job[p].meta),
               RowBecomes(p, "generation_failed", m)
        PROVE  SweepInv'
    <3>1. ASSUME Moving, Armed(p)' => Armed(p) PROVE RowSwept(p)'
      <4>1. Strict(p, m)
        BY <1>1, <2>1, <2>4 DEF JobSwept, Strict, Same
      <4>2. Strict(p, m)' /\ ~Armed(p)'
        BY <2>1, <3>1, <4>1, CopiesLast DEF Armed, Timely
      <4>3. Held(p, m)'
        BY <3>1, <4>2, StrictHeld
      <4> QED
        BY <2>1, <2>4, <3>1, <4>2, <4>3, RowTakes DEF RowBecomes, There
    <3> QED
      BY <2>1, <2>2, <2>4, <3>1, PostSweeps DEF JobGoes, RowBecomes
  <2> QED
    BY <1>6, <2>3, <2>4, JobThrowsDoes
<1>7. CASE JobFinishes(p)
  <2>1. /\ job[p].state \in {"billed", "threw"} /\ JobAt(p) /\ job'[p].state = "none"
        /\ UNCHANGED <<row, req, tick, swept, crashes>>
    BY <1>7, JobFinishesDoes
  <2>2. ASSUME Moving, Armed(p)' => Armed(p) PROVE JobSwept(p)'
    BY <2>1, <2>2, JobStands
  <2> QED
    BY <2>1, <2>2, PostSweeps DEF Working
<1> QED
  BY <1>2, <1>3, <1>4, <1>5, <1>6, <1>7 DEF JobStep

\* A death of the engine loses what the ticks had in hand: one more stamp for each post.
LEMMA CrashSweeps ==
  ASSUME TypeInv, TypeInv', NameInv, SweepInv, Steady, WorkerCrash
  PROVE  SweepInv'
<1>1. /\ \A p \in Posts : job'[p] = job[p] \/ job'[p].state = "waiting"
      /\ \A p \in Posts : job'[p].state # "active"
      /\ \A t \in Ticks : Hands(tick'[t]) = {} /\ tick'[t].pc = "idle"
      /\ crashes' = crashes + 1 /\ UNCHANGED <<row, req, swept>>
  BY WorkerCrashDoes
<1>2. Moving
  BY <1>1, BegunFinite DEF Moving, SweepInv, TypeInv
<1>3. ASSUME NEW p \in Posts
      PROVE  swept'[p] = swept[p] /\ (Armed(p)' => Armed(p)) /\ AtWork(p)' /\ Slack(p)' >= Gone(p) + 1
  <2>1. ~Armed(p)' /\ AtWork(p)'
    BY <1>1 DEF Armed, AtWork, At
  <2>2. Slack(p)' >= Gone(p) + 1
    BY <1>1, <1>2, MovingCounts
  <2> QED
    BY <1>1, <2>1, <2>2
<1>4. ASSUME NEW p \in Posts PROVE RowSwept(p)' /\ JobSwept(p)'
  BY <1>1, <1>2, <1>3, RowKeeps, JobStands
<1>5. \A r \in Requests : ReqSwept(r)'
  BY <1>1, <1>2, <1>3, RequestStands
<1>6. ASSUME NEW t \in Ticks PROVE TickSwept(t)'
  BY <1>1 DEF TickSwept, Hands
<1>7. (\A t \in Ticks : TickSwept(t))'
  BY <1>6
<1> QED
  BY <1>2, <1>3, <1>4, <1>5, <1>7 DEF SweepInv, Moving

\* The stamp that was due has come.
LEMMA CopyCounts ==
  ASSUME Moving, NEW p \in Posts, swept'[p] = swept[p], Armed(p)' => Armed(p),
         NEW m \in Meta, NEW n \in Meta, n.sweeps = m.sweeps + 1, Held(p, m)
  PROVE  Held(p, n)' /\ Strict(p, n)'
<1>1. Held(p, m)'
  BY CopiesLast
<1>2. PICK arms : arms = B(Armed(p))'
  OBVIOUS
<1>3. arms \in 0..1 /\ swept'[p] + arms <= m.sweeps + Gone(p)' + 1
  BY <1>1, <1>2 DEF Held, B
<1>4. PICK g1 \in Nat, s1 \in Nat : g1 = Gone(p)' /\ s1 = Slack(p)' /\ s1 >= g1
  BY MovingCounts
<1>5. m.sweeps \in Nat /\ swept'[p] \in Nat
  BY MovingCounts
<1>6. swept'[p] + arms <= n.sweeps + g1 + 1 /\ swept'[p] <= n.sweeps + s1
  BY <1>3, <1>4, <1>5
<1> QED
  BY <1>2, <1>4, <1>6 DEF Held, Strict

\* A tick works on what it has selected: at most the row in hand is left to show.
LEMMA TickMoves ==
  ASSUME TypeInv, TypeInv', NameInv, SweepInv, Steady, NEW t \in Ticks, TickAt(t),
         UNCHANGED <<req, job, swept>>, crashes' = crashes,
         tick'[t].todo \subseteq tick[t].todo, tick'[t].at = {},
         tick'[t].pc \in {"sweep", "stamp"} => tick[t].pc \in {"sweep", "stamp"},
         NEW p \in Posts, UNCHANGED row \/ RowAt(p),
         tick[t].pc = "stamp" => \A d \in tick[t].at : d.post = p,
         Moving /\ (Armed(p)' => Armed(p)) /\ swept'[p] = swept[p]
           => \/ UNCHANGED row /\ tick[t].pc # "stamp"
              \/ RowSwept(p)'
  PROVE  SweepInv'
<1>1. Moving
  BY BegunFinite DEF Moving, SweepInv, TypeInv
<1>2. ASSUME NEW q \in Posts
      PROVE  swept'[q] = swept[q] /\ (Armed(q)' => Armed(q)) /\ \A pc : At(pc, q)' => At(pc, q)
  BY DEF TickAt, Armed, Working, At
<1>3. ASSUME NEW q \in Posts PROVE AtWork(q)'
  BY <1>2 DEF SweepInv, AtWork, Working
<1>4. ASSUME NEW q \in Posts PROVE JobSwept(q)'
  BY <1>1, <1>2, JobStands
<1>5. \A r \in Requests : ReqSwept(r)'
  BY <1>1, <1>2, RequestStands
<1>6. ASSUME NEW q \in Posts PROVE RowSwept(q)'
  <2>1. CASE row'[q] = row[q] /\ (q # p \/ tick[t].pc # "stamp")
    <3>1. At("stamp", q) => At("stamp", q)'
      BY <2>1 DEF At, TickAt
    <3> QED
      BY <1>1, <1>2, <2>1, <3>1, RowKeeps DEF Due
  <2>2. CASE ~(row'[q] = row[q] /\ (q # p \/ tick[t].pc # "stamp"))
    <3>1. q = p
      BY <2>2 DEF RowAt
    <3> QED
      BY <1>1, <1>2, <2>2, <3>1
  <2> QED
    BY <2>1, <2>2
<1>7. ASSUME NEW u \in Ticks PROVE TickSwept(u)'
  <2>1. TickSwept(u) /\ \A c \in Hands(tick[u]) : c.post \in Posts /\ c.meta \in Meta
    BY HeldIsCandidate DEF SweepInv
  <2>2. ASSUME NEW c \in Hands(tick[u])
        PROVE  (Held(c.post, c.meta) => Held(c.post, c.meta)') /\ (Strict(c.post, c.meta) => Strict(c.post, c.meta)')
    BY <1>1, <1>2, <2>1, CopiesLast
  <2>3. tick'[u].todo \subseteq tick[u].todo /\ (tick'[u].at = {} \/ tick'[u] = tick[u])
    BY DEF TickAt
  <2> QED
    BY <2>1, <2>2, <2>3 DEF TickSwept, Hands, Working
<1>8. (\A u \in Ticks : TickSwept(u))'
  BY <1>7
<1> QED
  BY <1>1, <1>3, <1>4, <1>5, <1>6, <1>8 DEF SweepInv, Moving

\* A post the tick selects: the sweep does not take it up twice.
LEMMA SelectSweeps ==
  ASSUME TypeInv, TypeInv', NameInv, SweepInv, Steady, NEW t \in Ticks, TickAt(t),
         UNCHANGED <<row, req, job, swept, crashes>>, tick'[t].at = {},
         tick[t].pc \notin {"stamp", "unflag"}, tick'[t].pc # "unflag",
         \A c \in tick'[t].todo : c.post \in Posts /\ Due(c.post) /\ c.meta = row[c.post].meta,
         \/ tick'[t].pc \notin {"sweep", "stamp"}
         \/ \A r \in Requests : ~InFlight(r)
  PROVE  SweepInv'
<1>1. Moving
  BY BegunFinite DEF Moving, SweepInv, TypeInv
<1>2. ASSUME NEW q \in Posts PROVE \A pc \in {"stamp", "unflag"} : At(pc, q)' <=> At(pc, q)
  BY DEF At, TickAt
<1>3. ASSUME NEW q \in Posts PROVE AtWork(q)' /\ (~Working(q) => ~At("stamp", q) /\ ~At("unflag", q))
  BY <1>2 DEF SweepInv, AtWork, Working
<1>4. ASSUME NEW q \in Posts, NEW m \in Meta
      PROVE  /\ Strict(q, m) => Strict(q, m)'
             /\ Held(q, m) /\ (~Working(q) => Strict(q, m)) => Held(q, m)'
  <2>1. Strict(q, m) => Strict(q, m)'
    <3>1. PICK s \in Nat, s1 \in Nat : s = Slack(q) /\ s1 = Slack(q)' /\ s1 >= s
      BY <1>1, MovingCounts
    <3>2. m.sweeps \in Nat /\ swept[q] \in Nat
      BY <1>1, MovingCounts
    <3> QED
      BY <3>1, <3>2 DEF Strict
  <2>2. CASE Armed(q)' => Armed(q)
    BY <1>1, <2>1, <2>2, CopiesLast
  <2>3. CASE Armed(q)' /\ ~Armed(q)
    <3>1. ~Working(q) /\ \A r \in Requests : ~InFlight(r)
      BY <2>3 DEF Armed, Working, TickAt
    <3>2. Slack(q)' = Gone(q)'
      <4>1. ~Touch(q)'
        BY <3>1 DEF Touch, InFlight
      <4> QED
        BY <1>1, <4>1, MovingCounts DEF Slack, B
    <3> QED
      BY <1>1, <2>1, <3>1, <3>2, StrictHeld
  <2> QED
    BY <2>1, <2>2, <2>3
\* The row itself, and a copy of it.
<1>5. ASSUME NEW q \in Posts
      PROVE  /\ RowSwept(q)'
             /\ Due(q) => Held(q, row[q].meta)' /\ (~Working(q) => Strict(q, row[q].meta)')
  <2>1. RowSwept(q) /\ (~Working(q) => ~At("stamp", q))
    BY <1>3 DEF SweepInv
  <2>2. PICK m \in Meta : m = row[q].meta
    BY RowTyped
  <2>3. Held(q, m) /\ (Due(q) /\ ~At("stamp", q) => Strict(q, m))
    BY <2>1, <2>2 DEF RowSwept
  <2>4. CASE Due(q) \/ Working(q) \/ (Armed(q)' => Armed(q))
    <3>1. Held(q, m)'
      <4>1. CASE Armed(q)' => Armed(q)
        BY <1>1, <2>3, <4>1, CopiesLast
      <4>2. CASE Due(q) \/ Working(q)
        BY <1>4, <2>1, <2>3, <4>2
      <4> QED
        BY <2>4, <4>1, <4>2
    <3>2. Due(q) /\ ~At("stamp", q) => Strict(q, m)'
      BY <1>4, <2>3
    <3>3. There(q)' \/ swept'[q] = 0
      BY <2>1 DEF RowSwept, There
    <3>4. swept'[q] <= MaxSweeps + Slack(q)'
      BY <1>1, <2>1, MovingCounts DEF RowSwept
    <3>5. Held(q, row[q].meta)' /\ (Due(q) /\ ~At("stamp", q) => Strict(q, row[q].meta)')
      BY <2>2, <3>1, <3>2 DEF Held, Strict
    <3>6. RowSwept(q)'
      BY <1>2, <3>3, <3>4, <3>5 DEF RowSwept, Due
    <3> QED
      BY <2>1, <3>5, <3>6
  \* A post that a sweep newly arms is due.
  <2>5. CASE ~Due(q) /\ ~Working(q) /\ Armed(q)' /\ ~Armed(q)
    BY <2>5 DEF Armed, Working, TickAt
  <2> QED
    BY <2>4, <2>5
<1>6. ASSUME NEW q \in Posts PROVE JobSwept(q)'
  <2>1. JobSwept(q) /\ job[q].meta \in Meta
    BY JobTypedNow DEF SweepInv
  <2>2. PICK m \in Meta : m = job[q].meta
    BY <2>1
  <2>3. Strict(q, m) => Strict(q, m)'
    BY <1>4
  <2> QED
    BY <2>1, <2>2, <2>3 DEF JobSwept, Strict
<1>7. ASSUME NEW r \in Requests PROVE ReqSwept(r)'
  <2>1. CASE tick'[t].pc \notin {"sweep", "stamp"}
    <3>1. \A q \in Posts : swept'[q] = swept[q] /\ (Armed(q)' => Armed(q))
      BY <2>1 DEF Armed, Working, TickAt
    <3> QED
      BY <1>1, <3>1, RequestStands
  <2>2. CASE \A s \in Requests : ~InFlight(s)
    BY <2>2 DEF ReqSwept, InFlight
  <2> QED
    BY <2>1, <2>2
<1>8. ASSUME NEW u \in Ticks PROVE TickSwept(u)'
  <2>1. CASE u = t
    <3>1. ASSUME NEW c \in tick'[t].todo
          PROVE  Held(c.post, c.meta)' /\ (~Working(c.post) => Strict(c.post, c.meta)')
      <4>1. PICK q \in Posts, m \in Meta : q = c.post /\ m = c.meta /\ m = row[q].meta /\ Due(q)
        BY RowTyped
      <4>2. Held(q, m)' /\ (~Working(q) => Strict(q, m)')
        BY <1>5, <4>1 DEF Held, Strict
      <4> QED
        BY <4>1, <4>2
    <3> QED
      BY <2>1, <3>1 DEF TickSwept, Hands, Working
  <2>2. CASE u # t
    <3>1. TickSwept(u) /\ tick'[u] = tick[u]
          /\ \A c \in Hands(tick[u]) : c.post \in Posts /\ c.meta \in Meta
      BY <2>2, HeldIsCandidate DEF SweepInv, TickAt
    <3>2. ASSUME NEW c \in Hands(tick[u])
          PROVE  Held(c.post, c.meta)' /\ (Strict(c.post, c.meta) => Strict(c.post, c.meta)')
      <4>1. ~Working(c.post) => Strict(c.post, c.meta)
        <5>1. CASE c \in tick[u].todo
          BY <3>1, <5>1 DEF TickSwept
        <5>2. CASE c \in tick[u].at
          <6>1. tick[u].pc \in {"stamp", "unflag"}
            BY <5>2, TickTypedNow DEF TickTyped
          <6>2. At("stamp", c.post) \/ At("unflag", c.post)
            BY <5>2, <6>1 DEF At
          <6> QED
            BY <1>3, <3>1, <6>2
        <5> QED
          BY <5>1, <5>2 DEF Hands
      <4> QED
        BY <1>4, <3>1, <4>1 DEF TickSwept
    <3> QED
      BY <3>1, <3>2 DEF TickSwept, Hands, Working
  <2> QED
    BY <2>1, <2>2
<1>9. (\A u \in Ticks : TickSwept(u))'
  BY <1>8
<1> QED
  BY <1>1, <1>3, <1>5, <1>6, <1>7, <1>9 DEF SweepInv, Moving

\* The tick queues a post it has selected: what armed it is now counted, or is a release.
LEMMA AddSweeps ==
  ASSUME TypeInv, TypeInv', NameInv, SweepInv, Steady, NEW t \in Ticks, SweepAdds(t) \/ ReleaseAdds(t)
  PROVE  SweepInv'
<1>1. PICK c \in tick[t].todo :
        /\ ~Busy(c.post) /\ JobAt(c.post)
        /\ job'[c.post] = Queued(InstructionFor(c), BillableForPost(c.post))
        /\ TickAt(t) /\ tick'[t].todo = tick[t].todo \ {c} /\ tick'[t].at = {c}
        /\ \/ /\ tick[t].pc = "sweep" /\ tick'[t].pc = "stamp"
              /\ swept' \in [Posts -> Nat] /\ swept'[c.post] = swept[c.post] + 1
              /\ \A q \in Posts \ {c.post} : swept'[q] = swept[q]
           \/ /\ tick[t].pc = "release" /\ tick'[t].pc = "unflag" /\ UNCHANGED swept
        /\ UNCHANGED <<row, req, charged, crashes>>
  BY AddsDo
<1>2. PICK p \in Posts, n \in Meta : p = c.post /\ n = c.meta /\ (tick[t].pc = "sweep" => n.sweeps < MaxSweeps)
  BY HeldIsCandidate DEF Hands
<1>3. /\ job[p].state = "none" /\ ~Working(p) /\ Working(p)' /\ job'[p].state = "waiting" /\ There(p)
      /\ \A q \in Posts \ {p} : job'[q] = job[q]
  <2>1. CandNamed(c)
    BY DEF NameInv, Hands
  <2>2. job'[p].state = "waiting"
    BY <1>1, <1>2 DEF Queued
  <2> QED
    BY <1>1, <1>2, <2>1, <2>2 DEF Busy, Working, JobAt, CandNamed
<1>4. Moving
  BY <1>1, BegunFinite DEF Moving, SweepInv, TypeInv
<1>5. ASSUME NEW q \in Posts
      PROVE  /\ Armed(q)' => Armed(q) /\ q # p
             /\ \A pc \in {"stamp", "unflag"} : /\ At(pc, q) => At(pc, q)'
                                                /\ At(pc, q)' => At(pc, q) \/ q = p
  <2>1. tick[t].pc \notin {"stamp", "unflag"} /\ \A u \in Ticks \ {t} : tick'[u] = tick[u]
    BY <1>1 DEF TickAt
  <2>2. \A pc \in {"stamp", "unflag"} : /\ At(pc, q) => At(pc, q)'
                                        /\ At(pc, q)' => At(pc, q) \/ q = p
    BY <1>1, <1>2, <2>1 DEF At
  <2>3. Armed(q)' => q # p /\ ~Working(q)
    BY <1>3 DEF Armed, Working
  <2>4. \A u \in Ticks : tick'[u].pc \in {"sweep", "stamp"} =>
          tick[u].pc \in {"sweep", "stamp"} /\ tick'[u].todo \subseteq tick[u].todo
    BY <1>1, <2>1
  <2>5. Armed(q)' => Armed(q)
    BY <2>3, <2>4 DEF Armed
  <2> QED
    BY <2>2, <2>3, <2>5
<1>6. (tick[t].pc = "sweep" => Armed(p)) /\ Strict(p, n)
  <2>1. Strict(p, n)
    BY <1>2, <1>3 DEF SweepInv, TickSwept
  <2> QED
    BY <1>2, <1>3, <2>1 DEF Armed
\* What every copy says of the passes holds on: the tick was armed with the one it makes.
<1>7. ASSUME NEW q \in Posts, NEW m \in Meta, Held(q, m) PROVE Held(q, m)'
  <2>1. CASE swept'[q] = swept[q]
    BY <1>4, <1>5, <1>7, <2>1, CopiesLast
  <2>2. CASE swept'[q] # swept[q]
    <3>1. q = p /\ tick[t].pc = "sweep" /\ swept'[q] = swept[q] + 1
      BY <1>1, <1>2, <2>2
    <3>2. B(Armed(q)) = 1 /\ B(Armed(q))' = 0
      BY <1>5, <1>6, <3>1 DEF B
    <3>3. swept[q] + 1 <= m.sweeps + Gone(q) + 1
      BY <1>7, <3>2 DEF Held
    <3>4. PICK g \in Nat, g1 \in Nat : g = Gone(q) /\ g1 = Gone(q)' /\ g1 >= g
      BY <1>4, MovingCounts
    <3>5. m.sweeps \in Nat /\ swept[q] \in Nat
      BY <1>4, MovingCounts
    <3>6. swept'[q] + 0 <= m.sweeps + g1 + 1
      BY <3>1, <3>3, <3>4, <3>5
    <3> QED
      BY <3>2, <3>4, <3>6 DEF Held
  <2> QED
    BY <2>1, <2>2
<1>8. ASSUME NEW q \in Posts, NEW m \in Meta, swept'[q] = swept[q], Strict(q, m) PROVE Strict(q, m)'
  BY <1>4, <1>5, <1>8, CopiesLast
<1>9. ASSUME NEW q \in Posts PROVE RowSwept(q)'
  <2>1. RowSwept(q)
    BY DEF SweepInv
  <2>2. CASE swept'[q] = swept[q]
    BY <1>1, <1>4, <1>5, <2>2, RowKeeps DEF Due
  <2>3. CASE swept'[q] # swept[q]
    <3>1. q = p /\ tick[t].pc = "sweep" /\ swept'[q] = swept[q] + 1 /\ At("stamp", q)'
      BY <1>1, <1>2, <2>3 DEF At
    <3>2. swept'[q] <= MaxSweeps + Slack(q)'
      <4>1. PICK s \in Nat, s1 \in Nat : s = Slack(q) /\ s1 = Slack(q)' /\ s1 >= s
        BY <1>4, MovingCounts
      <4>2. n.sweeps \in Nat /\ swept[q] \in Nat /\ MaxSweeps \in Nat
        BY <1>4, MovingCounts
      <4>3. n.sweeps + 1 <= MaxSweeps /\ swept[q] <= n.sweeps + s
        BY <1>2, <1>6, <3>1, <4>1, <4>2 DEF Strict
      <4> QED
        BY <3>1, <4>1, <4>2, <4>3
    <3>3. PICK m \in Meta : m = row[q].meta
      BY RowTyped
    <3>4. Held(q, m)'
      BY <1>7, <2>1, <3>3 DEF RowSwept
    <3>5. There(q)'
      BY <1>1, <1>3, <3>1 DEF There
    <3> QED
      BY <1>1, <3>1, <3>2, <3>3, <3>4, <3>5 DEF RowSwept, Held
  <2> QED
    BY <2>2, <2>3
<1>10. ASSUME NEW q \in Posts PROVE AtWork(q)' /\ JobSwept(q)'
  <2>1. AtWork(q)'
    BY <1>3, <1>5 DEF SweepInv, AtWork, Working
  <2>2. CASE q = p
    BY <1>3, <2>1, <2>2 DEF JobSwept
  <2>3. CASE q # p
    <3>1. swept'[q] = swept[q] /\ job'[q] = job[q]
      BY <1>1, <1>2, <1>3, <2>3
    <3> QED
      BY <1>4, <1>5, <2>1, <3>1, JobStands
  <2> QED
    BY <2>2, <2>3
<1>11. ASSUME NEW r \in Requests PROVE ReqSwept(r)'
  <2>1. PICK q \in Posts, m \in Meta : q = req[r].post /\ m = req[r].meta
    BY ReqTyped
  <2>2. ReqSwept(r) /\ (Held(q, m) => Held(q, m)')
    BY <1>7 DEF SweepInv
  <2> QED
    BY <1>1, <2>1, <2>2 DEF ReqSwept, Held
<1>12. ASSUME NEW u \in Ticks PROVE TickSwept(u)'
  <2>1. TickSwept(u) /\ \A d \in Hands(tick[u]) : d.post \in Posts /\ d.meta \in Meta
    BY HeldIsCandidate DEF SweepInv
  <2>2. Hands(tick'[u]) \subseteq Hands(tick[u]) /\ tick'[u].todo \subseteq tick[u].todo
    BY <1>1 DEF Hands, TickAt
  <2>3. \A d \in Hands(tick[u]) : Held(d.post, d.meta)'
    BY <1>7, <2>1 DEF TickSwept
  <2>4. ASSUME NEW d \in tick[u].todo, ~Working(d.post)' PROVE Strict(d.post, d.meta)'
    <3>1. d.post \in Posts /\ d.meta \in Meta /\ d.post # p
      BY <1>3, <2>1, <2>4 DEF Hands
    <3>2. ~Working(d.post) /\ swept'[d.post] = swept[d.post]
      BY <1>1, <1>2, <1>3, <2>4, <3>1 DEF Working
    <3> QED
      BY <1>8, <2>1, <2>4, <3>1, <3>2 DEF TickSwept
  <2>5. ASSUME tick'[u].pc = "unflag", NEW d \in tick'[u].at PROVE Strict(d.post, d.meta)'
    <3>1. CASE u = t
      <4>1. d = c /\ swept'[p] = swept[p]
        BY <1>1, <2>5, <3>1
      <4> QED
        BY <1>2, <1>6, <1>8, <4>1
    <3>2. CASE u # t
      <4>1. tick'[u] = tick[u] /\ Strict(d.post, d.meta) /\ d.post \in Posts /\ d.meta \in Meta
        BY <1>1, <2>1, <2>5, <3>2 DEF TickAt, TickSwept, Hands
      <4>2. At("unflag", d.post)
        BY <2>5, <4>1 DEF At
      <4>3. Working(d.post)
        BY <4>1, <4>2 DEF SweepInv, AtWork
      <4>4. swept'[d.post] = swept[d.post]
        BY <1>1, <1>2, <1>3, <4>1, <4>3
      <4> QED
        BY <1>8, <4>1, <4>4
    <3> QED
      BY <3>1, <3>2
  <2>6. \A d, e \in tick'[u].at : d = e
    BY <1>1, <2>1 DEF TickAt, TickSwept
  <2>7. /\ \A d \in Hands(tick'[u]) : Held(d.post, d.meta)'
        /\ \A d \in tick'[u].todo : ~Working(d.post)' => Strict(d.post, d.meta)'
    BY <2>2, <2>3, <2>4
  <2> QED
    BY <2>5, <2>6, <2>7 DEF TickSwept, Hands
<1>13. (\A u \in Ticks : TickSwept(u))'
  BY <1>12
<1> QED
  BY <1>4, <1>9, <1>10, <1>11, <1>13 DEF SweepInv, Moving

LEMMA TickStepSweeps ==
  ASSUME TypeInv, TypeInv', NameInv, SweepInv, Steady, NEW t \in Ticks, TickStep(t)
  PROVE  SweepInv'
<1>1. TickSwept(t) /\ \A c \in Hands(tick[t]) : c.post \in Posts /\ c.meta \in Meta /\ There(c.post)
  BY HeldIsCandidate DEF SweepInv, NameInv, CandNamed
<1>2. PICK p \in Posts : TRUE
  BY PostsAssumption
<1>3. tick[t].pc \notin {"stamp", "unflag"} => tick[t].at = {}
  BY TickTypedNow DEF TickTyped
<1>4. CASE TickStarts(t)
  <2>1. /\ \A r \in Requests : ~InFlight(r)
        /\ TickGoes(t, "sweep") /\ tick'[t].todo = SweepRows /\ tick[t].pc = "idle"
        /\ UNCHANGED <<row, req, job, swept, crashes>>
    BY <1>4, TickStartsDoes DEF InFlight, TickStarts
  <2>2. \A c \in tick'[t].todo : c.post \in Posts /\ Due(c.post) /\ c.meta = row[c.post].meta
    BY <2>1, SweepRowsAre DEF Due
  <2> QED
    BY <2>1, <2>2, SelectSweeps DEF TickGoes
<1>5. CASE RetireSelects(t) \/ ReleaseSelects(t)
  <2>1. PICK past \in BOOLEAN : tick'[t].todo = BankedRows(past)
    BY <1>5, SelectsDo
  <2>2. /\ TickAt(t) /\ tick'[t].at = {} /\ tick'[t].pc \in {"retire", "release"}
        /\ tick[t].pc \in {"sweep", "retire"} /\ UNCHANGED <<row, req, job, swept, crashes>>
    BY <1>5, SelectsDo DEF TickGoes, RetireSelects, ReleaseSelects
  <2>3. \A c \in tick'[t].todo : c.post \in Posts /\ Due(c.post) /\ c.meta = row[c.post].meta
    BY <2>1, BankedRowsAre DEF Due
  <2> QED
    BY <2>2, <2>3, SelectSweeps
<1>6. CASE SweepSkips(t) \/ ReleaseHolds(t) \/ TickAddError(t)
  <2>1. /\ TickGoes(t, tick[t].pc) /\ tick'[t].todo \subseteq tick[t].todo
        /\ tick[t].pc \in {"sweep", "release"} /\ crashes' = crashes
        /\ UNCHANGED <<row, job, req, swept>>
    BY <1>6, PassesOverDoes
  <2> QED
    BY <1>2, <2>1, TickMoves DEF TickGoes
<1>7. CASE TickEnds(t)
  <2>1. /\ TickGoes(t, "idle") /\ tick'[t].todo = {} /\ tick[t].pc = "release"
        /\ UNCHANGED <<row, job, req, swept, crashes>>
    BY <1>7, TickEndsDoes DEF TickEnds
  <2> QED
    BY <1>2, <2>1, TickMoves DEF TickGoes
<1>8. CASE SweepStamps(t)
  <2>1. PICK c \in tick[t].at :
          /\ tick[t].pc = "stamp"
          /\ \/ UNCHANGED row /\ row[c.post].status \notin {"generation_failed", "generating"}
             \/ \E m \in Meta : RowBecomes(c.post, "generating", m) /\ m.sweeps = c.meta.sweeps + 1
          /\ TickGoes(t, "sweep") /\ tick'[t].todo = tick[t].todo
          /\ UNCHANGED <<job, req, swept, crashes>>
    BY <1>8, SweepStampsDoes
  <2>2. PICK q \in Posts, n \in Meta : q = c.post /\ n = c.meta
    BY <1>1 DEF Hands
  <2>3. Held(q, n) /\ There(q) /\ \A d \in tick[t].at : d.post = q
    BY <1>1, <2>1, <2>2 DEF TickSwept, Hands
  <2>4. CASE UNCHANGED row /\ ~Due(q)
    <3>1. ASSUME Moving, Armed(q)' => Armed(q), swept'[q] = swept[q] PROVE RowSwept(q)'
      BY <2>4, <3>1, RowKeeps DEF Due
    <3> QED
      BY <2>1, <2>3, <2>4, <3>1, TickMoves DEF TickGoes
  <2>5. ASSUME NEW m \in Meta, RowBecomes(q, "generating", m), m.sweeps = n.sweeps + 1 PROVE SweepInv'
    <3>1. ASSUME Moving, Armed(q)' => Armed(q), swept'[q] = swept[q] PROVE RowSwept(q)'
      <4>1. Held(q, m)' /\ Strict(q, m)'
        BY <2>3, <2>5, <3>1, CopyCounts
      <4> QED
        BY <2>5, <3>1, <4>1, RowTakes DEF RowBecomes, There
    <3> QED
      BY <2>1, <2>3, <2>5, <3>1, TickMoves DEF TickGoes, RowBecomes
  <2> QED
    BY <2>1, <2>2, <2>4, <2>5 DEF Due
<1>9. CASE Retires(t)
  <2>1. PICK c \in tick[t].todo :
          /\ tick[t].pc = "retire"
          /\ \/ UNCHANGED row
             \/ \E m \in Meta : RowBecomes(c.post, "generation_expired", m) /\ m.sweeps = c.meta.sweeps
          /\ TickGoes(t, "retire") /\ tick'[t].todo = tick[t].todo \ {c}
          /\ UNCHANGED <<job, req, swept, crashes>>
    BY <1>9, RetiresDoes
  <2>2. PICK q \in Posts, n \in Meta : q = c.post /\ n = c.meta
    BY <1>1 DEF Hands
  <2>3. Held(q, n)
    BY <1>1, <2>2 DEF TickSwept, Hands
  <2>4. CASE UNCHANGED row
    BY <2>1, <2>4, TickMoves DEF TickGoes
  <2>5. ASSUME NEW m \in Meta, RowBecomes(q, "generation_expired", m), m.sweeps = n.sweeps PROVE SweepInv'
    <3>1. ASSUME Moving, Armed(q)' => Armed(q), swept'[q] = swept[q] PROVE RowSwept(q)'
      <4>1. Held(q, n)' /\ row'[q].meta.sweeps = n.sweeps
        BY <2>3, <2>5, <3>1, CopiesLast DEF RowBecomes
      <4> QED
        BY <2>5, <3>1, <4>1, RowTakes DEF RowBecomes, There, Due
    <3> QED
      BY <2>1, <2>5, <3>1, TickMoves DEF TickGoes, RowBecomes
  <2> QED
    BY <2>1, <2>2, <2>4, <2>5
<1>10. CASE ReleaseUnflags(t)
  <2>1. PICK c \in tick[t].at :
          /\ tick[t].pc = "unflag"
          /\ \/ UNCHANGED row
             \/ \E m \in Meta : RowBecomes(c.post, "generating", m) /\ m.sweeps = c.meta.sweeps
          /\ TickGoes(t, "release") /\ tick'[t].todo = tick[t].todo
          /\ UNCHANGED <<job, req, swept, crashes>>
    BY <1>10, ReleaseUnflagsDoes
  <2>2. PICK q \in Posts, n \in Meta : q = c.post /\ n = c.meta
    BY <1>1 DEF Hands
  <2>3. Held(q, n) /\ Strict(q, n)
    BY <1>1, <2>1, <2>2 DEF TickSwept, Hands
  <2>4. CASE UNCHANGED row
    BY <2>1, <2>4, TickMoves DEF TickGoes
  <2>5. ASSUME NEW m \in Meta, RowBecomes(q, "generating", m), m.sweeps = n.sweeps PROVE SweepInv'
    <3>1. ASSUME Moving, Armed(q)' => Armed(q), swept'[q] = swept[q] PROVE RowSwept(q)'
      <4>1. Held(q, n)' /\ Strict(q, n)' /\ row'[q].meta.sweeps = n.sweeps
        BY <2>3, <2>5, <3>1, CopiesLast DEF RowBecomes
      <4> QED
        BY <2>5, <3>1, <4>1, RowTakes DEF RowBecomes, There
    <3> QED
      BY <2>1, <2>5, <3>1, TickMoves DEF TickGoes, RowBecomes
  <2> QED
    BY <2>1, <2>2, <2>4, <2>5
<1> QED
  BY <1>4, <1>5, <1>6, <1>7, <1>8, <1>9, <1>10, AddSweeps DEF TickStep

LEMMA SweepInvKept == TypeInv /\ TypeInv' /\ NameInv /\ SweepInv /\ [Next]_vars => SweepInv'
<1> SUFFICES ASSUME TypeInv, TypeInv', NameInv, SweepInv, [Next]_vars PROVE SweepInv'
  OBVIOUS
<1>1. Steady
  BY NameInvKept
<1>2. CASE UNCHANGED vars \/ MonthTurns
  <2>1. UNCHANGED <<row, req, job, tick, swept, crashes>>
    BY <1>2 DEF MonthTurns
  <2>2. PICK p \in Posts : TRUE
    BY PostsAssumption
  <2>3. ASSUME Moving, Armed(p)' => Armed(p) PROVE JobSwept(p)'
    BY <2>1, <2>3, JobStands
  <2> QED
    BY <1>1, <2>1, <2>2, <2>3, PostSweeps DEF Working
<1> QED
  BY <1>1, <1>2, CrashSweeps, BeginSweeps, RequestStepSweeps, PostStepSweeps, TickStepSweeps DEF Next

LEMMA SweepInvBounds ==
  ASSUME TypeInv, SweepInv
  PROVE  SweepIsBounded
<1> SUFFICES ASSUME NEW p \in Posts
             PROVE  swept[p] <= MaxSweeps + crashes + Cardinality({r \in Requests : req[r].post = p /\ req[r].pc # "idle"})
  BY DEF SweepIsBounded
<1> DEFINE N == {r \in Requests : req[r].post = p /\ req[r].pc # "idle"}
<1>1. /\ Gone(p) \in Nat /\ IsFiniteSet(Done(p)) /\ Cardinality(Done(p)) \in Nat
      /\ swept[p] \in Nat /\ MaxSweeps \in Nat /\ crashes \in Nat
  BY Counts DEF SweepInv, TypeInv
<1>2. IsFiniteSet(N) /\ Cardinality(N) \in Nat
  <2>1. N \in SUBSET Begun
    BY DEF Begun
  <2> QED
    BY <2>1, FS_Subset, FS_CardinalityType DEF SweepInv
<1>3. Cardinality(Done(p)) + B(Touch(p)) <= Cardinality(N)
  <2>1. CASE Touch(p)
    <3>1. PICK r \in Requests : InFlight(r) /\ req[r].post = p
      BY <2>1 DEF Touch
    <3>2. r \notin Done(p) /\ Done(p) \cup {r} \in SUBSET N
      BY <3>1 DEF Done, InFlight
    <3>3. Cardinality(Done(p) \cup {r}) = Cardinality(Done(p)) + 1
      BY <1>1, <3>2, FS_AddElement
    <3>4. Cardinality(Done(p) \cup {r}) <= Cardinality(N)
      BY <1>2, <3>2, FS_Subset
    <3> QED
      BY <2>1, <3>3, <3>4 DEF B
  <2>2. CASE ~Touch(p)
    <3>1. Done(p) \in SUBSET N
      BY DEF Done
    <3>2. Cardinality(Done(p)) <= Cardinality(N)
      BY <1>2, <3>1, FS_Subset
    <3> QED
      BY <1>1, <2>2, <3>2 DEF B
  <2> QED
    BY <2>1, <2>2
<1>4. swept[p] <= MaxSweeps + Slack(p)
  BY DEF SweepInv, RowSwept
<1>5. PICK touch : touch = B(Touch(p))
  OBVIOUS
<1>6. touch \in 0..1
  BY <1>5 DEF B
<1> HIDE DEF N
<1>7. swept[p] <= MaxSweeps + crashes + Cardinality(N)
  <2>1. PICK done \in Nat, all \in Nat : done = Cardinality(Done(p)) /\ all = Cardinality(N) /\ done + touch <= all
    BY <1>1, <1>2, <1>3, <1>5
  <2>2. swept[p] <= MaxSweeps + (crashes + done + touch)
    BY <1>4, <1>5, <2>1 DEF Slack, Gone
  <2> QED
    BY <1>1, <1>6, <2>1, <2>2
<1> QED
  BY <1>7 DEF N

\* The tick offers a stranded post to the queue no oftener than
\* MAX_SWEEP_ATTEMPTS, plus one for each request that wrote an older copy of its
\* metadata over the counter, and one for each death before the counter is stamped.
THEOREM SweepStaysBounded == Spec => []SweepIsBounded
<1>1. Init => TypeInv /\ NameInv /\ SweepInv
  BY TypeInvInit, NameInvInit, SweepInvInit
<1>2. TypeInv /\ NameInv /\ SweepInv /\ [Next]_vars => (TypeInv /\ NameInv /\ SweepInv)'
  BY TypeInvKept, NameInvKept, SweepInvKept
<1> QED
  BY <1>1, <1>2, SweepInvBounds, PTL DEF Spec
=============================================================================
