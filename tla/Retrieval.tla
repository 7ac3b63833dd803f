------------------------------- MODULE Retrieval -------------------------------
(***************************************************************************)
(* src/src/services/retrieval_context.py: calls of retrieve_context() in   *)
(* threads of one process, which bring a vector index (vector_index.py) in *)
(* line with the files on disk, query it, and fall back to the keyword     *)
(* search, while the files are edited.  The embedder (embedder.py) checks  *)
(* an estimate of the tokens against the quota of the day (embed_quota.py) *)
(* and charges what the provider says it used.                             *)
(*                                                                         *)
(* A content stands for its hash.  Every call asks the same question, in   *)
(* one of several sets of corpora; scores, snippets and latencies are left *)
(* out, and so is the memory graph.  Time only matters for the cache: an   *)
(* entry may expire at any moment.                                         *)
(***************************************************************************)
EXTENDS Integers, FiniteSets, FiniteSetsExt

CONSTANTS
    Doc,      \* paths: numbers, in the order in which they are listed
    CorpusOf, \* per path, its corpus
    Content,  \* contents of a file: positive numbers; 0 is no file
    Requests, \* the sets of corpora that calls ask for
    Call,     \* concurrent calls
    TopK,     \* top_k
    Cap,      \* Config.EMBED_DAILY_TOKEN_CAP
    Estimate, \* what estimate_tokens() says of a text: positive numbers
    MaxUsage, \* bound: tokens the provider reports for a text
    MaxEdits, \* bound: edits
    MaxCalls  \* bound: calls

VARIABLES
    file,    \* per path: its content
    index,   \* sessions.db: per indexed path, the content that was embedded
    hashes,  \* _doc_hashes
    cache,   \* _retrieval_cache: per set of corpora, the sources
    used,    \* tokens charged to the quota today
    pc,      \* per call: where it is
    corpus,  \* per call: the corpora asked for
    todo,    \* per call: listed paths not yet synchronised
    seen,    \* per call: paths that were read
    doc, text, \* per call: the path at hand and what was read there
    bucket,  \* per call: the quota it read before charging
    stale,   \* per call: rows to delete
    sources, \* per call: what it found, as <<path, content>>
    raced,   \* paths edited while a call had read and not yet indexed them
    edits, calls \* bounds

store == <<index, hashes, cache, used>>
work == <<corpus, todo, seen, doc, text, bucket, stale, sources>>
retrievalVars == <<file, store, pc, work, raced, edits, calls>>

\* Asking for the embedding of a document or of the query, and charging it.
Embedding == {"embed", "charge", "save"}
Asking == {"ask", "ask_charge", "ask_save"}

TypeOK ==
    /\ file \in [Doc -> Content \cup {0}]
    /\ DOMAIN index \subseteq Doc /\ index \in [DOMAIN index -> Content]
    /\ DOMAIN hashes \subseteq Doc /\ hashes \in [DOMAIN hashes -> Content]
    /\ \A request \in DOMAIN cache : cache[request] \subseteq Doc \X Content
    /\ used \in Nat
    /\ pc \in [Call -> {"idle", "sync", "mark", "upsert", "unmark", "clean", "forget",
                        "keyword", "answer"} \cup Embedding \cup Asking]
    /\ corpus \in [Call -> Requests \cup {{}}]
    /\ {todo, seen, stale} \subseteq [Call -> SUBSET Doc]
    /\ doc \in [Call -> Doc \cup {0}] /\ text \in [Call -> Content \cup {0}]
    /\ bucket \in [Call -> Nat]
    /\ sources \in [Call -> SUBSET (Doc \X Content)]
    /\ raced \subseteq Doc

Nothing == [d \in {} |-> 0]

Init ==
    /\ file \in [Doc -> Content \cup {0}]
    /\ index = Nothing /\ hashes = Nothing /\ cache = Nothing /\ used = 0
    /\ pc = [c \in Call |-> "idle"] /\ corpus = [c \in Call |-> {}]
    /\ todo = [c \in Call |-> {}] /\ seen = [c \in Call |-> {}]
    /\ doc = [c \in Call |-> 0] /\ text = [c \in Call |-> 0]
    /\ bucket = [c \in Call |-> 0] /\ stale = [c \in Call |-> {}]
    /\ sources = [c \in Call |-> {}]
    /\ raced = {} /\ edits = 0 /\ calls = 0

Put(f, x, y) == [z \in DOMAIN f \cup {x} |-> IF z = x THEN y ELSE f[z]]
Drop(f, x) == [z \in DOMAIN f \ {x} |-> f[z]]
Go(c, place) == pc' = [pc EXCEPT ![c] = place]
InCorpora(corpora) == {d \in Doc : CorpusOf[d] \in corpora}

\* _collect_corpus_files()
Listed(corpora) == {d \in InCorpora(corpora) : file[d] # 0}

-----------------------------------------------------------------------------
(* The files.                                                               *)

Edit ==
    /\ edits < MaxEdits /\ edits' = edits + 1
    /\ \E d \in Doc, content \in Content \cup {0} :
         /\ content # file[d]
         /\ file' = [file EXCEPT ![d] = content]
         /\ raced' = raced \cup {e \in {d} : \E c \in Call :
                       doc[c] = e /\ pc[c] \in Embedding \cup {"mark", "upsert"}}
    /\ UNCHANGED <<store, pc, work, calls>>

\* The process ends; the index stays.
Restart ==
    /\ calls > 0 /\ calls < MaxCalls
    /\ hashes' = Nothing /\ cache' = Nothing
    /\ pc' = [c \in Call |-> "idle"]
    /\ corpus' = [c \in Call |-> {}]
    /\ todo' = corpus' /\ seen' = corpus' /\ stale' = corpus' /\ sources' = corpus'
    /\ doc' = [c \in Call |-> 0] /\ text' = doc' /\ bucket' = doc'
    /\ UNCHANGED <<file, index, used, raced, edits, calls>>

-----------------------------------------------------------------------------
(* Synchronising the index.                                                 *)

\* retrieve_context() with the vector backend and an embedder ...
retrieve_context(c) ==
    /\ pc[c] = "idle" /\ calls < MaxCalls /\ calls' = calls + 1
    /\ \E request \in Requests :
         /\ corpus' = [corpus EXCEPT ![c] = request]
         /\ todo' = [todo EXCEPT ![c] = Listed(request)]
    /\ Go(c, "sync")
    /\ UNCHANGED <<file, store, seen, doc, text, bucket, stale, sources, raced, edits>>

\* ... or without: another backend is configured, sqlite-vec is missing, or
\* build_default_embedder() has no state manager.  No row is touched.
Degraded(c) ==
    /\ pc[c] = "idle" /\ calls < MaxCalls /\ calls' = calls + 1
    /\ \E request \in Requests : corpus' = [corpus EXCEPT ![c] = request]
    /\ Go(c, "keyword")
    /\ UNCHANGED <<file, store, todo, seen, doc, text, bucket, stale, sources, raced, edits>>

\* The next listed file is read; one that has gone is skipped.
ReadDoc(c) ==
    /\ pc[c] = "sync" /\ todo[c] # {}
    /\ LET d == Min(todo[c])
       IN  /\ todo' = [todo EXCEPT ![c] = @ \ {d}]
           /\ IF file[d] = 0
                THEN UNCHANGED <<pc, seen, doc, text>>
                ELSE /\ seen' = [seen EXCEPT ![c] = @ \cup {d}]
                     /\ doc' = [doc EXCEPT ![c] = d]
                     /\ text' = [text EXCEPT ![c] = file[d]]
                     /\ Go(c, "mark")
    /\ UNCHANGED <<file, store, corpus, bucket, stale, sources, raced, edits, calls>>

\* Under the lock of the hashes: unchanged, or marked before it is embedded.
Mark(c) ==
    /\ pc[c] = "mark"
    /\ IF doc[c] \in DOMAIN hashes /\ hashes[doc[c]] = text[c]
         THEN Go(c, "sync") /\ UNCHANGED hashes
         ELSE Go(c, "embed") /\ hashes' = Put(hashes, doc[c], text[c])
    /\ UNCHANGED <<file, index, cache, used, work, raced, edits, calls>>

\* _precheck() lets the request pass, and the provider answers.
Embed(c) ==
    /\ pc[c] \in {"embed", "ask"}
    /\ \E estimate \in Estimate : used + estimate <= Cap
    /\ Go(c, IF pc[c] = "embed" THEN "charge" ELSE "ask_charge")
    /\ UNCHANGED <<file, store, work, raced, edits, calls>>

\* The vector of the document is ready, or the rows nearest to the query are
\* the sources, whatever their corpora.
Embedded(c) ==
    IF pc[c] \in Embedding THEN Go(c, "upsert") /\ UNCHANGED sources
    ELSE /\ Go(c, "answer")
         /\ \E near \in SUBSET DOMAIN index :
              /\ Cardinality(near) = Min({TopK, Cardinality(DOMAIN index)})
              /\ sources' = [sources EXCEPT ![c] = {<<d, index[d]>> : d \in near}]

\* record() reads the bucket and adds the usage reported, or the estimate for
\* want of one; no tokens are not recorded ...
Charge(c) ==
    /\ pc[c] \in {"charge", "ask_charge"}
    /\ \/ /\ \E usage \in 1 .. MaxUsage : bucket' = [bucket EXCEPT ![c] = used + usage]
          /\ Go(c, IF pc[c] = "charge" THEN "save" ELSE "ask_save")
          /\ UNCHANGED sources
       \/ Embedded(c) /\ UNCHANGED bucket
    /\ UNCHANGED <<file, store, corpus, todo, seen, doc, text, stale, raced, edits, calls>>

\* ... and puts it back.
Save(c) ==
    /\ pc[c] \in {"save", "ask_save"}
    /\ used' = bucket[c] /\ bucket' = [bucket EXCEPT ![c] = 0]
    /\ Embedded(c)
    /\ UNCHANGED <<file, index, hashes, cache, corpus, todo, seen, doc, text,
                   stale, raced, edits, calls>>

\* The quota is exhausted, the provider or the database fails, or the answer of
\* the provider is malformed and what it used is not charged.
Fails(c) ==
    /\ pc[c] \in {"embed", "charge", "upsert", "ask", "ask_charge", "clean"}
    /\ Go(c, IF pc[c] \in {"embed", "charge", "upsert"} THEN "unmark" ELSE "keyword")
    /\ UNCHANGED <<file, store, work, raced, edits, calls>>

upsert(c) ==
    /\ pc[c] = "upsert"
    /\ index' = Put(index, doc[c], text[c])
    /\ Go(c, "sync")
    /\ UNCHANGED <<file, hashes, cache, used, work, raced, edits, calls>>

\* Mutant: the mark survives the failure.
Unmark_Keep(c) ==
    /\ pc[c] = "unmark"
    /\ Go(c, "keyword")
    /\ UNCHANGED <<file, store, work, raced, edits, calls>>

Unmark(c) ==
    /\ pc[c] = "unmark"
    /\ hashes' = Drop(hashes, doc[c])
    /\ Go(c, "keyword")
    /\ UNCHANGED <<file, index, cache, used, work, raced, edits, calls>>

\* Mutant: every indexed path is in scope, as before the corpora filter.
known_doc_ids_All(corpora) == DOMAIN index

known_doc_ids(corpora) == DOMAIN index \cap InCorpora(corpora)

\* Every listed file is done.
Scan(c) ==
    /\ pc[c] = "sync" /\ todo[c] = {}
    /\ stale' = [stale EXCEPT ![c] = known_doc_ids(corpus[c]) \ seen[c]]
    /\ Go(c, "clean")
    /\ UNCHANGED <<file, store, corpus, todo, seen, doc, text, bucket, sources,
                   raced, edits, calls>>

delete(c) ==
    /\ pc[c] = "clean"
    /\ \E d \in stale[c] :
         /\ index' = Drop(index, d)
         /\ stale' = [stale EXCEPT ![c] = @ \ {d}]
         /\ doc' = [doc EXCEPT ![c] = d]
    /\ Go(c, "forget")
    /\ UNCHANGED <<file, hashes, cache, used, corpus, todo, seen, text, bucket, sources,
                   raced, edits, calls>>

Forget(c) ==
    /\ pc[c] = "forget"
    /\ hashes' = Drop(hashes, doc[c])
    /\ Go(c, "clean")
    /\ UNCHANGED <<file, index, cache, used, work, raced, edits, calls>>

\* An empty corpus is not queried.
Synced(c) ==
    /\ pc[c] = "clean" /\ stale[c] = {}
    /\ IF seen[c] = {} THEN Go(c, "answer") /\ sources' = [sources EXCEPT ![c] = {}]
                       ELSE Go(c, "ask") /\ UNCHANGED sources
    /\ UNCHANGED <<file, store, corpus, todo, seen, doc, text, bucket, stale,
                   raced, edits, calls>>

\* _keyword_retrieve(): the best of the files in the corpora asked for.
keyword_retrieve(c) ==
    /\ pc[c] = "keyword"
    /\ \E best \in SUBSET Listed(corpus[c]) :
         /\ Cardinality(best) = Min({TopK, Cardinality(Listed(corpus[c]))})
         /\ sources' = [sources EXCEPT ![c] = {<<d, file[d]>> : d \in best}]
    /\ Go(c, "answer")
    /\ UNCHANGED <<file, store, corpus, todo, seen, doc, text, bucket, stale,
                   raced, edits, calls>>

\* The cache is only looked at now: an entry for the same question goes before
\* what was just found.  The call ends, and its locals with it.
Answer(c) ==
    /\ pc[c] = "answer"
    /\ cache' = IF corpus[c] \in DOMAIN cache THEN cache ELSE Put(cache, corpus[c], sources[c])
    /\ Go(c, "idle")
    /\ corpus' = [corpus EXCEPT ![c] = {}]
    /\ todo' = [todo EXCEPT ![c] = {}] /\ seen' = [seen EXCEPT ![c] = {}]
    /\ stale' = [stale EXCEPT ![c] = {}] /\ sources' = [sources EXCEPT ![c] = {}]
    /\ doc' = [doc EXCEPT ![c] = 0] /\ text' = [text EXCEPT ![c] = 0]
    /\ UNCHANGED <<file, index, hashes, used, bucket, raced, edits, calls>>

Expire ==
    /\ \E request \in DOMAIN cache : cache' = Drop(cache, request)
    /\ UNCHANGED <<file, index, hashes, used, pc, work, raced, edits, calls>>

Next ==
    \/ Edit \/ Restart \/ Expire
    \/ \E c \in Call :
         \/ retrieve_context(c) \/ Degraded(c) \/ ReadDoc(c) \/ Mark(c) \/ Embed(c)
         \/ Charge(c) \/ Save(c) \/ Fails(c) \/ upsert(c) \/ Unmark(c) \/ Scan(c)
         \/ delete(c) \/ Forget(c) \/ Synced(c) \/ keyword_retrieve(c) \/ Answer(c)

Spec == Init /\ [][Next]_retrievalVars

-----------------------------------------------------------------------------

\* A call is between the mark and the row, or between the row and the mark.
InFlight(d) == \E c \in Call : doc[c] = d /\ pc[c] \in Embedding \cup {"upsert", "unmark", "forget"}

(* The hashes decide which files are never embedded again, so they must not *)
(* promise more than the index has: a path with a hash has a row or is in   *)
(* the hands of a call, and the row has the very content of the hash unless *)
(* the file was edited while a call had it in hand - then an older content  *)
(* may be indexed last.  No call deletes a row of a corpus it was not asked *)
(* for, nor of a file it has just read.                                     *)
(* No request passes the check of the daily cap once the cap is reached, so *)
(* that the cap is overrun by no more than what the requests in flight use  *)
(* beyond it: one per call, if there are two.  (Three can overrun it by any *)
(* number of requests: one holds back a low count and another a high one,   *)
(* and the checks between their two saves pass once more.)                  *)
IndexIsSound ==
    /\ \A d \in DOMAIN hashes : InFlight(d) \/ d \in DOMAIN index
    /\ \A d \in DOMAIN hashes \ raced : InFlight(d) \/ index[d] = hashes[d]
    /\ \A c \in Call : stale[c] \subseteq InCorpora(corpus[c]) \ seen[c]
    /\ Cardinality(Call) <= 2 => used <= Cap - 1 + Cardinality(Call) * MaxUsage

=============================================================================
