----------------------------- MODULE Migration -----------------------------
(***************************************************************************)
(* The migration tool (cmd/migrate/main.go): it copies the keys of an etcd *)
(* page by page to a server and then, when asked to, compares them.  The   *)
(* clients of the source may write it meanwhile; the calls to the          *)
(* destination may fail, and a Put that failed may have been applied.  The *)
(* destination may have keys already, but while the tool runs nobody else  *)
(* writes it.                                                              *)
(***************************************************************************)
EXTENDS Serving, FiniteSets

CONSTANTS
    NumKeys,       \* keys, in their order
    PageSize,      \* cfg.batchSize
    MaxSrcWrites   \* bound: writes to the source while the tool runs

ASSUME MigrationAssumption ==
    NumKeys \in Nat /\ PageSize \in Nat \ {0} /\ MaxSrcWrites \in Nat

VARIABLES
    src, dst,    \* the value of each key; 0: no such key
    srcWrites,   \* writes to the source since the tool started
    mig          \* the tool

migrationVars == <<src, dst, srcWrites, mig>>

allVars == <<migrationVars, processVars>>

MigKey == 1..NumKeys

\* from: the next page starts here.  kvs: what is left of the last response.
\* failed: failed > 0.  bad: missing > 0 or wrong > 0.  read: verify's response.
NoMigration ==
    [pc |-> "off", dryRun |-> FALSE, verify |-> FALSE, from |-> 1, kvs |-> {}, full |-> FALSE,
     failed |-> FALSE, bad |-> FALSE, read |-> {}]

\* The source's keys and values from first on ...
SrcGet(first) ==
    {[key |-> k, value |-> src[k]] : k \in {n \in MigKey : n >= first /\ src[n] # 0}}

\* ... and with a limit, those of its first PageSize keys.
IsPage(page, first) ==
    /\ \A kv \in page, other \in SrcGet(first) : other.key < kv.key => other \in page
    /\ Cardinality(page) <= PageSize
    /\ page = SrcGet(first) \/ (page # {} /\ Cardinality(page) = PageSize)

Become(new) ==
    /\ mig' = new
    /\ UNCHANGED <<src, srcWrites, processVars>>

Start ==
    /\ mig.pc = "off"
    /\ \E dryRun, verify \in BOOLEAN :
          Become([mig EXCEPT !.pc = "page", !.dryRun = dryRun, !.verify = verify])
    /\ UNCHANGED dst

\* After the last page.
Copied(m) ==
    [m EXCEPT !.pc = IF m.failed THEN "error" ELSE IF m.verify THEN "verify" ELSE "ok"]

\* Variant: a full page is taken for the last one.
IsFullMore(n) == n > PageSize

IsFull(n) == n >= PageSize

\* The page after a full one starts behind its last key.
ReadPage ==
    /\ mig.pc = "page"
    /\ \E page \in SUBSET SrcGet(mig.from) :
          /\ IsPage(page, mig.from)
          /\ IF page = {} THEN Become(Copied(mig))
             ELSE IF mig.dryRun THEN Become([mig EXCEPT !.pc = "ok"])
             ELSE \E last \in page :
                    /\ \A kv \in page : kv.key <= last.key
                    /\ Become([mig EXCEPT !.pc = "put", !.kvs = page, !.from = last.key + 1,
                                          !.full = IsFull(Cardinality(page))])
    /\ UNCHANGED dst

\* A read of the source fails, or the tool is interrupted.
SourceFails ==
    /\ mig.pc \in {"page", "verify"}
    /\ Become([mig EXCEPT !.pc = "error"])
    /\ UNCHANGED dst

AfterPut(kv, ok) ==
    LET m == [mig EXCEPT !.kvs = @ \ {kv}, !.failed = @ \/ ~ok]
    IN  IF m.kvs # {} THEN m
        ELSE IF m.full THEN [m EXCEPT !.pc = "page"] ELSE Copied(m)

\* The destination client has no credentials.
Reached == proc = "serving" /\ ~enabled

\* Responses are gone through in the order of their keys.
IsNext(kv) == kv \in mig.kvs /\ \A other \in mig.kvs : kv.key <= other.key

DstPut(kv) ==
    /\ mig.pc = "put" /\ IsNext(kv) /\ Reached
    /\ dst' = [dst EXCEPT ![kv.key] = kv.value]
    /\ \E ok \in BOOLEAN : Become(AfterPut(kv, ok))

DstPutFails(kv) ==
    /\ mig.pc = "put" /\ IsNext(kv)
    /\ Become(AfterPut(kv, FALSE))
    /\ UNCHANGED dst

Verify ==
    /\ mig.pc = "verify"
    /\ Become([mig EXCEPT !.pc = "compare", !.kvs = SrcGet(1), !.read = SrcGet(1)])
    /\ UNCHANGED dst

DstGet(kv) ==
    /\ mig.pc = "compare" /\ IsNext(kv) /\ Reached
    /\ Become([mig EXCEPT !.kvs = @ \ {kv}, !.bad = @ \/ dst[kv.key] # kv.value])
    /\ UNCHANGED dst

\* Variant: a Get that fails counts for nothing.
DstGetFailsUncounted(kv) ==
    /\ mig.pc = "compare" /\ IsNext(kv)
    /\ Become([mig EXCEPT !.kvs = @ \ {kv}])
    /\ UNCHANGED dst

\* A Get that fails counts as a missing key.
DstGetFails(kv) ==
    /\ mig.pc = "compare" /\ IsNext(kv)
    /\ Become([mig EXCEPT !.kvs = @ \ {kv}, !.bad = TRUE])
    /\ UNCHANGED dst

Verified ==
    /\ mig.pc = "compare" /\ mig.kvs = {}
    /\ Become([mig EXCEPT !.pc = IF mig.bad THEN "error" ELSE "ok"])
    /\ UNCHANGED dst

\* A client of the source puts or deletes a key.
SrcWrite(k, v) ==
    /\ mig.pc \notin {"off", "ok", "error"} /\ srcWrites < MaxSrcWrites
    /\ src' = [src EXCEPT ![k] = v]
    /\ srcWrites' = srcWrites + 1
    /\ UNCHANGED <<dst, mig, processVars>>

MigrationInit ==
    /\ ServingInit
    /\ src \in [MigKey -> {0, 1}]
    /\ dst \in [MigKey -> {0, 3}]
    /\ srcWrites = 0
    /\ mig = NoMigration

MigrationNext ==
    \/ Start \/ ReadPage \/ SourceFails \/ Verify \/ Verified
    \/ \E kv \in mig.kvs : DstPut(kv) \/ DstPutFails(kv) \/ DstGet(kv) \/ DstGetFails(kv)
    \/ \E k \in MigKey, v \in {0, 2} : SrcWrite(k, v)
    \/ ServingNext /\ UNCHANGED migrationVars

MigrationSpec ==
    MigrationInit /\ [][MigrationNext]_allVars /\ ServingFairness

-----------------------------------------------------------------------------
(* Properties. *)

\* When the tool reports success and nothing was written to the source
\* meanwhile, the destination has every key and value of the source, whatever
\* it had before and whatever the page size, also when verification was not
\* asked for and when the last page is full.
MigrationComplete ==
    mig.pc = "ok" /\ ~mig.dryRun /\ srcWrites = 0 =>
        \A k \in MigKey : src[k] # 0 => dst[k] = src[k]

\* When it reports success after verifying, the destination has every key and
\* value that verify read from the source, whatever was written to the source
\* while the pages were copied and whatever calls failed.
VerifiedIsThere ==
    mig.pc = "ok" => \A kv \in mig.read : dst[kv.key] = kv.value

=============================================================================
