---- MODULE CampaignLedger ----
(***************************************************************************)
(* main() of campaign_run: several invocations share one ledger file. Each *)
(* takes the lock, checks the budget, reserves its liability durably and   *)
(* only then launches. A process can be killed at any step; files stay.    *)
(* The ledger is kept as what check_budget computes from it: the sum of    *)
(* each category, and the attempts it lists. What run() does is            *)
(* CampaignRun's; here it may begin to pay, alive or not.                  *)
(***************************************************************************)
EXTENDS Integers

CONSTANTS
  Procs,         \* invocations of the program
  NoProc,        \* nobody holds the lock
  Setups,        \* pinned release, model, allocation, ... of a cell
  Outputs,       \* names of output directories
  Configs,       \* bound: the configurations the processes are given
  Caps,          \* EXECUTION_CAPS
  Contingency,   \* CONTINGENCY_USD
  TotalCap,      \* TOTAL_CAP_USD
  PriorSpent     \* bound: sums of the ledgers found at the beginning

Kinds == {"qualification", "scaling", "scored"}
Categories == {"qualification", "vla", "wam", "recovery"}
Spendings == [Categories -> Nat]
Ledgers == [spent : Spendings, attempts : SUBSET Procs]

\* The sum of f over the categories in S.
SumOver(S, f) ==
  LET part(c) == IF c \in S THEN f[c] ELSE 0
  IN part("qualification") + part("vla") + part("wam") + part("recovery")

Total(spent) == SumOver(Categories, spent)

ContingencyUsed(spent) ==
  SumOver(Categories,
          [c \in Categories |-> IF spent[c] > Caps[c] THEN spent[c] - Caps[c] ELSE 0])

Affordable(spent) == ContingencyUsed(spent) <= Contingency /\ Total(spent) <= TotalCap

ASSUME ProcsAssumption == NoProc \notin Procs
ASSUME CapsAssumption == Caps \in Spendings /\ Contingency \in Nat /\ TotalCap \in Nat
ASSUME ConfigsAssumption ==
  \A f \in Configs :
    f \in [Procs -> [kind : Kinds, setup : Setups, liability : Nat, estimate : Nat,
                     output : Outputs]]
ASSUME PriorAssumption == \A s \in PriorSpent : s \in Spendings /\ Affordable(s)

VARIABLES
  cell,        \* the configuration each process was given
  stage,       \* where each process stands in main()
  lock,        \* the process that holds the flock
  ledger,      \* the ledger file
  copy,        \* each process's ledger in memory
  temporary,   \* the ".new" file
  outputs,     \* output directories that exist
  launched,    \* processes that have called run()
  paying,      \* processes that may have a bill: only billing tells its end
  proofs       \* processes whose audited evidence passes qualify

files == <<ledger, temporary, outputs>>
ledgerVars == <<cell, stage, lock, ledger, copy, temporary, outputs, launched, paying, proofs>>

\* Stages after the lock was taken, and all of them.
Holding == {"locked", "checked", "named", "written", "reserved", "run"}
Stages == Holding \cup {"start", "exited"}

LedgerTypeOK ==
  /\ cell \in Configs
  /\ stage \in [Procs -> Stages]
  /\ lock \in Procs \cup {NoProc}
  /\ ledger \in Ledgers
  /\ copy \in [Procs -> Ledgers]
  /\ temporary \in Ledgers
  /\ outputs \subseteq Outputs
  /\ launched \subseteq Procs
  /\ paying \subseteq launched
  /\ proofs \subseteq launched

LedgerInit ==
  /\ cell \in Configs
  /\ stage = [p \in Procs |-> "start"]
  /\ lock = NoProc
  /\ ledger \in [spent : PriorSpent, attempts : {{}}]
  /\ copy = [p \in Procs |-> ledger]
  /\ temporary = ledger
  /\ outputs = {}
  /\ launched = {} /\ paying = {} /\ proofs = {}

-----------------------------------------------------------------------------
(* preflight and check_budget.                                              *)

Category(c) == IF c.kind = "qualification" THEN "qualification" ELSE "vla"

Charged(spent, category, amount) == [spent EXCEPT ![category] = @ + amount]

\* Mutation: every category has the contingency to itself.
OwnContingency(spent, category, amount) ==
  /\ amount > 0
  /\ Charged(spent, category, amount)[category] <= Caps[category] + Contingency

\* Posted charges and reservations count, whatever became of the attempt.
CheckBudget(spent, category, amount) ==
  /\ amount > 0
  /\ Affordable(Charged(spent, category, amount))

\* The evidence of an attempt with the same setup that passed qualify.
Qualified(c) == \E q \in proofs : cell[q].setup = c.setup

\* A measurement must also leave room for the rest of the study.
Preflight(c, spent) ==
  /\ CheckBudget(spent, Category(c), c.liability)
  /\ Category(c) = "vla" =>
       /\ Qualified(c)
       /\ c.estimate >= c.liability
       /\ CheckBudget(spent, "vla", c.estimate)

-----------------------------------------------------------------------------
(* main(), one process.                                                     *)

Goes(p, from, to) == stage[p] = from /\ stage' = [stage EXCEPT ![p] = to]

\* Mutation: a shared lock.
LockShared(p) ==
  /\ Goes(p, "start", "locked")
  /\ lock' = p
  /\ UNCHANGED <<cell, files, copy, launched, paying, proofs>>

\* LOCK_EX | LOCK_NB
TakeLock(p) ==
  /\ Goes(p, "start", "locked")
  /\ lock = NoProc
  /\ lock' = p
  /\ UNCHANGED <<cell, files, copy, launched, paying, proofs>>

FindLocked(p) ==
  /\ Goes(p, "start", "exited")
  /\ lock # NoProc
  /\ UNCHANGED <<cell, lock, files, copy, launched, paying, proofs>>

ReadLedger(p) ==
  /\ Goes(p, "locked", "checked")
  /\ Preflight(cell[p], ledger.spent)
  /\ copy' = [copy EXCEPT ![p] = ledger]
  /\ UNCHANGED <<cell, lock, files, launched, paying, proofs>>

\* exist_ok=False: nobody reuses the evidence of another attempt.
MakeOutput(p) ==
  /\ Goes(p, "checked", "named")
  /\ cell[p].output \notin outputs
  /\ outputs' = outputs \cup {cell[p].output}
  /\ UNCHANGED <<cell, lock, ledger, copy, temporary, launched, paying, proofs>>

Reservation(l, p) ==
  [spent |-> Charged(l.spent, Category(cell[p]), cell[p].liability),
   attempts |-> l.attempts \cup {p}]

\* Written whole and synchronised under another name.
WriteTemporary(p) ==
  /\ Goes(p, "named", "written")
  /\ temporary' = Reservation(copy[p], p)
  /\ UNCHANGED <<cell, lock, ledger, copy, outputs, launched, paying, proofs>>

\* os.replace
Replace(p) ==
  /\ Goes(p, "written", "reserved")
  /\ ledger' = temporary
  /\ UNCHANGED <<cell, lock, copy, temporary, outputs, launched, paying, proofs>>

Launch(p) ==
  /\ Goes(p, "reserved", "run")
  /\ launched' = launched \cup {p}
  /\ UNCHANGED <<cell, lock, files, copy, paying, proofs>>

\* main() raises, returns, or is killed: the flock goes with the process.
Leave(p) ==
  /\ stage[p] \in Holding
  /\ stage' = [stage EXCEPT ![p] = "exited"]
  /\ lock' = NoProc
  /\ UNCHANGED <<cell, files, copy, launched, paying, proofs>>

Reserve(p) == TakeLock(p) \/ FindLocked(p) \/ ReadLedger(p) \/ MakeOutput(p)
              \/ WriteTemporary(p) \/ Replace(p)

-----------------------------------------------------------------------------
(* What a launched process pays for, and what people make of its evidence.  *)

Pay(p) ==
  /\ p \in launched
  /\ paying' = paying \cup {p}
  /\ UNCHANGED <<cell, stage, lock, files, copy, launched, proofs>>

\* Preflight does not ask what kind of attempt the evidence is of.
Audit(p) ==
  /\ p \in launched
  /\ stage[p] = "exited"
  /\ proofs' = proofs \cup {p}
  /\ UNCHANGED <<cell, stage, lock, files, copy, launched, paying>>

LedgerNext == \E p \in Procs :
  Reserve(p) \/ Launch(p) \/ Leave(p) \/ Pay(p) \/ Audit(p)

LedgerSpec == LedgerInit /\ [][LedgerNext]_ledgerVars

-----------------------------------------------------------------------------
(* Properties.                                                              *)

\* Whichever categories are added up, what the ledger holds for them stays within
\* their caps and one shared contingency: no overrun is covered twice, and what
\* one category has not spent (WAM's reserve) is not spent by another.
WithinBudget ==
  /\ Total(ledger.spent) <= TotalCap
  /\ \A S \in SUBSET Categories :
       SumOver(S, ledger.spent) <= SumOver(S, Caps) + Contingency

\* What is launched or may have a bill, even after its process was killed and others have
\* rewritten the file, has its reservation in the ledger, and the output
\* directory the entry names is its own.
ReservedBeforePaid ==
  /\ paying \subseteq ledger.attempts
  /\ launched \subseteq ledger.attempts
  /\ \A p, q \in ledger.attempts : cell[p].output = cell[q].output => p = q

====
