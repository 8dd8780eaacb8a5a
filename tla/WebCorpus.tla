-------------------------------- MODULE WebCorpus --------------------------------
(***************************************************************************)
(* tools/openwebtext: a list of urls becomes a training corpus by a chain  *)
(* of scripts, each of which reads the file of the one before it: urls are *)
(* filtered, pages merged and cleaned, near duplicates found, grouped and  *)
(* removed, what the evaluation tasks contain cut out, ids given.  A       *)
(* script writes its file anew each time, so one that was killed is run    *)
(* again.  The scripts' pools hand their results over in order (imap); the *)
(* bins of the search for duplicates are compared side by side.            *)
(*                                                                         *)
(* A text is a sequence of characters, words are its letters: one-letter   *)
(* words, the lengths of a text and of a word being all that tells them    *)
(* apart here.  Fetched pages, detected languages, fixed texts and the     *)
(* bands of the fingerprints are external.                                 *)
(***************************************************************************)
EXTENDS Integers, Sequences, SequencesExt, FiniteSetsExt, Functions

CONSTANT WebJobs
  \* route: the scripts, in order; listed: the files of urls, urls: of each its
  \* domain, extension, whether it is short and well formed; shards: the files of
  \* pages; pages: of each url [json, language, text]; data: the file to start
  \* from; min_document, char_ngram; tasks of the cleanup; earlier: loaded
  \* fingerprints; jaccard, threshold (tenths), heuristic_iter, parallel;
  \* task_texts, min, max, filter, key_threshold, splits, remove of the ngrams

Letters == {"a", "b", "c", "d"}
Broken == "#"                    \* what ftfy makes the letter d of
Punctuations == {"."}
\* One of each list; and what two of its lines without a comma between are.
domain_blacklist == {"flickr"}
extentions_blacklist == {".pdf", ".7z.ai"}

VARIABLES web,       \* one of WebJobs
          desk,      \* the number of the script that runs, or that is next
          shelf,     \* of each script the file it reads
          clean_urls, pairs, groups,  \* the files of the scripts on urls and duplicates
          bench,     \* what the running script has in memory and in its own file
          web_raised \* whether it died of an exception

web_vars == <<web, desk, shelf, clean_urls, pairs, groups, bench, web_raised>>

Running(script) == ~web_raised /\ desk <= Len(web.route) /\ web.route[desk] = script
feed == shelf[desk]
Exhausted == bench.line = Len(feed)
NextLine == feed[bench.line + 1]

NoWork == [todo |-> {}, bucket |-> {}, iteration |-> 0, removed |-> << >>]
Fresh ==
  [line |-> 0, penned |-> << >>, urls |-> {}, merged |-> {}, filtered |-> << >>,
   url_doc |-> << >>, work |-> << >>, url_to_index |-> << >>, index_to_urls |-> << >>,
   mode |-> "read", ngrams |-> << >>, taken |-> FALSE, text_buf |-> << >>,
   free |-> << >>, local |-> {}]

\* The script ends: its file, or the one it left alone, is what the next reads.
Leave(file) == /\ desk' = desk + 1
               /\ shelf' = Append(shelf, file)
               /\ bench' = Fresh
Raise == web_raised' = TRUE /\ UNCHANGED <<web, desk, shelf, clean_urls, pairs, groups, bench>>

\* One more line: b is the bench without it.
Read(b) == bench' = [b EXCEPT !.line = @ + 1]
Pen(docs) == [bench EXCEPT !.penned = @ \o docs]

-----------------------------------------------------------------------------
(***************************************************************************)
(* blacklist_urls.py and merge_jsons.py.                                   *)
(***************************************************************************)
domain_is_in_blacklist(url) == web.urls[url].domain \in domain_blacklist
extention_is_in_blacklist(url) == web.urls[url].extension \in extentions_blacklist
url_is_malformed(url) == ~web.urls[url].formed

Unwanted(url) == \/ domain_is_in_blacklist(url)
                 \/ extention_is_in_blacklist(url)
                 \/ web.urls[url].short
                 \/ url_is_malformed(url)

UrlLines == FlattenSeq(web.listed)

ReadUrl == /\ Running("urls")
           /\ bench.line < Len(UrlLines)
           /\ LET url == UrlLines[bench.line + 1] IN
                bench' = [bench EXCEPT !.line = @ + 1,
                                       !.urls = IF Unwanted(url) THEN @ ELSE @ \cup {url}]
           /\ UNCHANGED <<web, desk, shelf, clean_urls, pairs, groups, web_raised>>

WriteUrls == /\ Running("urls")
             /\ bench.line = Len(UrlLines)
             /\ clean_urls' = bench.urls
             /\ Leave(<< >>)
             /\ UNCHANGED <<web, pairs, groups, web_raised>>

\* The pages of a shard that were fetched, one line each.
Fetched(shard) ==
  LET urls == SelectSeq(web.shards[shard], LAMBDA u : u \in clean_urls)
  IN  [i \in DOMAIN urls |-> [url |-> urls[i], json |-> web.pages[urls[i]].json,
                              language |-> web.pages[urls[i]].language,
                              text |-> web.pages[urls[i]].text, split |-> << >>, id |-> 0]]

\* A file of the directory, in the order glob finds them.
MergeFile == /\ Running("merge")
             /\ \E shard \in DOMAIN web.shards \ bench.merged :
                  IF \E i \in DOMAIN Fetched(shard) : ~Fetched(shard)[i].json THEN Raise
                  ELSE /\ bench' = [Pen(Fetched(shard)) EXCEPT !.merged = @ \cup {shard}]
                       /\ UNCHANGED <<web, desk, shelf, clean_urls, pairs, groups, web_raised>>

MergeDone == /\ Running("merge")
             /\ bench.merged = DOMAIN web.shards
             /\ Leave(bench.penned)
             /\ UNCHANGED <<web, clean_urls, pairs, groups, web_raised>>

-----------------------------------------------------------------------------
(***************************************************************************)
(* cleanup_dataset.py and cleanup_fix_dataset.py.                          *)
(***************************************************************************)
fix_text(text) == [i \in DOMAIN text |-> IF text[i] = Broken THEN "d" ELSE text[i]]
Positions(text) == SelectSeq([i \in DOMAIN text |-> i], LAMBDA i : text[i] \in Letters)
get_words(text) == [k \in DOMAIN Positions(text) |-> text[Positions(text)[k]]]

\* A language that cannot be told ("none") is an exception of detect.
Small(text) == /\ Len(text) < 8 * web.min_document
               /\ Len(get_words(text)) < web.min_document

CleanLine ==
  /\ Running("clean")
  /\ ~Exhausted
  /\ LET fixed == [NextLine EXCEPT !.text = fix_text(@)]
     IN  Read(IF NextLine.json /\ NextLine.language = "en" /\ ~Small(fixed.text)
              THEN Pen(<<fixed>>) ELSE bench)
  /\ UNCHANGED <<web, desk, shelf, clean_urls, pairs, groups, web_raised>>

collapse(text) ==
  LET kept == SelectSeq([i \in DOMAIN text |-> i],
                        LAMBDA i : i = 1 \/ text[i] # " " \/ text[i - 1] # " ")
  IN  [k \in DOMAIN kept |-> text[kept[k]]]

\* process_doc: whether the document goes to the filtered file, and its text, by
\* the first of the tasks that has a say.  An exception of detect filters, too.
ToFilter(doc) ==
  \/ "remove_512" \in web.tasks /\ Len(doc.text) < web.min_document
  \/ /\ "remove_512_non_english" \in web.tasks
     /\ Len(doc.text) < web.min_document
     /\ doc.language # "en"
process_doc(doc) ==
  CASE ToFilter(doc) -> doc
    [] "ftfy_fix_text" \in web.tasks -> [doc EXCEPT !.text = fix_text(@)]
    [] "general_cleaning" \in web.tasks -> [doc EXCEPT !.text = collapse(@)]
    [] OTHER -> doc

FixLine ==
  /\ Running("fix")
  /\ ~Exhausted
  /\ IF ~NextLine.json THEN Raise
     ELSE /\ Read(IF ToFilter(NextLine)
                  THEN [bench EXCEPT !.filtered = Append(@, process_doc(NextLine))]
                  ELSE Pen(<<process_doc(NextLine)>>))
          /\ UNCHANGED <<web, desk, shelf, clean_urls, pairs, groups, web_raised>>

\* The scripts that copy what they keep line by line.
CopyDone == /\ \E script \in {"clean", "fix", "remove", "id"} : Running(script)
            /\ Exhausted
            /\ Leave(bench.penned)
            /\ UNCHANGED <<web, clean_urls, pairs, groups, web_raised>>

-----------------------------------------------------------------------------
(***************************************************************************)
(* find_duplicates.py.                                                     *)
(***************************************************************************)
shingles(text) == { SubSeq(text, head + 1, head + web.char_ngram) :
                      head \in 0 .. Len(text) - web.char_ngram - 1 }

\* The similarity as a pair of a numerator and a denominator.
jaccard(a, b) ==
  IF a = {} \/ b = {} THEN <<0, 1>>
  ELSE <<Cardinality(a \cap b),
         CASE web.jaccard = "min" -> Min({Cardinality(a), Cardinality(b)})
           [] web.jaccard = "max" -> Max({Cardinality(a), Cardinality(b)})
           [] OTHER -> Cardinality(a \cup b)>>

Similarity(docs, u, v) == jaccard(shingles(docs[u]), shingles(docs[v]))
Duplicates(js) == 2 * js[1] > js[2]
Similar(js) == 10 * js[1] >= web.threshold * js[2]

\* EXTERNAL (lsh): one bin by the first character of the texts, one by the last
\* but one.
Bands == 1 .. 2
Band(b, text) == IF b = 1 THEN SubSeq(text, 1, 1) ELSE SubSeq(text, Len(text) - 1, Len(text) - 1)
Buckets(docs, b) ==
  { { u \in DOMAIN docs : Band(b, docs[u]) = key } : key \in { Band(b, docs[u]) : u \in DOMAIN docs } }

FingerprintLine ==
  /\ Running("find")
  /\ ~Exhausted
  /\ Read(IF NextLine.json
          THEN [bench EXCEPT !.url_doc = (NextLine.url :> NextLine.text) @@ @] ELSE bench)
  /\ UNCHANGED <<web, desk, shelf, clean_urls, pairs, groups, web_raised>>

\* The fingerprints are complete: every bin's buckets of two or more urls.
StartCompare ==
  /\ Running("find")
  /\ Exhausted
  /\ bench.work = << >>
  /\ LET docs == bench.url_doc @@ web.earlier IN
       bench' = [bench EXCEPT !.url_doc = docs,
                   !.work = [b \in Bands |-> [NoWork EXCEPT !.todo =
                                { u \in Buckets(docs, b) : Cardinality(u) > 1 }]]]
  /\ UNCHANGED <<web, desk, shelf, clean_urls, pairs, groups, web_raised>>

Busy(b) == Cardinality(bench.work[b].bucket) > 1 /\ bench.work[b].iteration # web.heuristic_iter

\* One turn of url_pairs_to_remove with a random url, or the next bucket.
CompareBucket(b) ==
  /\ Running("find")
  /\ b \in DOMAIN bench.work
  /\ web.parallel \/ \A c \in 1 .. b - 1 : bench.work[c].todo = {} /\ ~Busy(c)
  /\ LET w == bench.work[b] IN
       IF Busy(b)
       THEN \E main_url \in w.bucket :
              LET js == [u \in w.bucket \ {main_url} |-> Similarity(bench.url_doc, main_url, u)]
                  remove == { u \in DOMAIN js : Duplicates(js[u]) }
                  line == [main |-> main_url, others |-> [u \in remove |-> js[u]]]
              IN  bench' = [bench EXCEPT !.work[b] =
                    [@ EXCEPT !.bucket = (@ \ remove) \ {main_url}, !.iteration = @ + 1,
                              !.removed = IF remove = {} THEN @ ELSE Append(@, line)]]
       ELSE /\ w.todo # {}
            /\ LET u == CHOOSE u \in w.todo : TRUE IN
                 bench' = [bench EXCEPT !.work[b] =
                             [@ EXCEPT !.bucket = u, !.todo = @ \ {u}, !.iteration = 0]]
  /\ UNCHANGED <<web, desk, shelf, clean_urls, pairs, groups, web_raised>>

\* The bins' lines are written in the order of the bins.
FindDone == /\ Running("find")
            /\ bench.work # << >>
            /\ \A b \in Bands : bench.work[b].todo = {} /\ ~Busy(b)
            /\ pairs' = bench.work[1].removed \o bench.work[2].removed
            /\ Leave(feed)
            /\ UNCHANGED <<web, clean_urls, groups, web_raised>>

-----------------------------------------------------------------------------
(***************************************************************************)
(* group_duplicate_url.py and remove_group_duplicates.py.                  *)
(***************************************************************************)
GroupLine ==
  /\ Running("group")
  /\ bench.line < Len(pairs)
  /\ LET line == pairs[bench.line + 1]
         urls == {line.main} \cup { u \in DOMAIN line.others : Similar(line.others[u]) }
         at == bench.url_to_index
         seen == { at[u] : u \in urls \cap DOMAIN at }
     IN  \E current_index \in IF line.main \in DOMAIN at THEN {at[line.main]}
                              ELSE IF seen # {} THEN seen ELSE {Len(bench.index_to_urls) + 1} :
           LET other_indices == seen \ {current_index}
               merged == urls \cup UNION { bench.index_to_urls[i] : i \in other_indices }
               sets == IF seen = {} THEN Append(bench.index_to_urls, {}) ELSE bench.index_to_urls
           IN  bench' = [bench EXCEPT !.line = @ + 1,
                 !.url_to_index = [u \in merged |-> current_index] @@ at,
                 !.index_to_urls = [i \in DOMAIN sets |->
                    IF i = current_index THEN sets[i] \cup merged
                    ELSE IF i \in other_indices THEN {} ELSE sets[i]]]
  /\ UNCHANGED <<web, desk, shelf, clean_urls, pairs, groups, web_raised>>

\* The urls of a group in the order in which a set is listed: one is the first.
GroupDone ==
  /\ Running("group")
  /\ bench.line = Len(pairs)
  /\ LET written == { urls \in Range(bench.index_to_urls) : Cardinality(urls) > 1 } IN
       \E first \in [written -> UNION written] :
         /\ \A urls \in written : first[urls] \in urls
         /\ groups' = { [first |-> first[urls], rest |-> urls \ {first[urls]}] : urls \in written }
  /\ Leave(feed)
  /\ UNCHANGED <<web, clean_urls, pairs, web_raised>>

Struck == UNION { g.rest : g \in groups }

RemoveLine ==
  /\ Running("remove")
  /\ ~Exhausted
  /\ Read(IF NextLine.json /\ NextLine.url \notin Struck THEN Pen(<<NextLine>>) ELSE bench)
  /\ UNCHANGED <<web, desk, shelf, clean_urls, pairs, groups, web_raised>>

-----------------------------------------------------------------------------
(***************************************************************************)
(* filter_ngrams.py, with the arguments of the job.                        *)
(***************************************************************************)
compute_ngrams(text) ==
  LET words == get_words(text) IN
    IF Len(words) < web.min THEN {}
    ELSE IF Len(words) < web.max THEN {words}
    ELSE { SubSeq(words, i + 1, i + web.max) : i \in 0 .. Len(words) - web.max }

ReadTasks ==
  /\ Running("ngrams")
  /\ bench.mode = "read"
  /\ LET ngrams == UNION { compute_ngrams(t) : t \in web.task_texts } IN
       IF ngrams = {} THEN Raise       \* compute_ngram_freq_sorted of nothing
       ELSE /\ bench' = [bench EXCEPT !.mode = "count", !.ngrams = [g \in ngrams |-> 0]]
            /\ UNCHANGED <<web, desk, shelf, clean_urls, pairs, groups, web_raised>>

\* The places <<first word, number of words>> where an ngram is looked for, and
\* their order: at every place of the longest ones the longest and then the
\* others by length; in the last of them, when it is not the only one, the others.
Looked(words, lens) ==
  LET last == Len(words) - web.max IN
    { <<i, n>> \in (0 .. Len(words)) \X (lens \cup {web.max}) :
        i <= last \/ (last > 0 /\ n # web.max /\ i + n <= Len(words)) }
Rank(words, place) ==
  LET last == Len(words) - web.max IN
    IF place[1] <= last THEN <<place[1], IF place[2] = web.max THEN 0 ELSE place[2], 0>>
    ELSE <<last + 1, place[2], place[1]>>
Before(p, q) == \/ p[1] < q[1]
                \/ p[1] = q[1] /\ p[2] < q[2]
                \/ p[1] = q[1] /\ p[2] = q[2] /\ p[3] < q[3]

Matches(text, ngrams) ==
  LET words == get_words(text) IN
    { place \in Looked(words, { Len(g) : g \in ngrams }) :
        SubSeq(words, place[1] + 1, place[1] + place[2]) \in ngrams }
FirstMatch(text, ngrams) ==
  LET words == get_words(text) IN
    CHOOSE p \in Matches(text, ngrams) :
      \A q \in Matches(text, ngrams) \ {p} : Before(Rank(words, p), Rank(words, q))

\* Where a match starts, from 0, and how long its words joined by spaces are.
Start(text, place) == Positions(text)[place[1] + 1] - 1
SeqLen(place) == 2 * place[2] - 1

split_text(text, place) ==
  LET from == Start(text, place) - web.remove
      to == Start(text, place) + SeqLen(place) + web.remove
      before == { p \in 1 .. from : p < Len(text) /\ text[p + 1] \in Punctuations }
      after == { p \in to .. Len(text) - 1 : text[p + 1] \in Punctuations }
  IN  <<IF before = {} THEN << >> ELSE SubSeq(text, 1, Max(before) + 1),
        IF after = {} THEN << >> ELSE SubSeq(text, Min(after) + 2, Len(text))>>

LongEnough(texts) == SelectSeq(texts, LAMBDA t : Len(t) > web.filter)

BelowThreshold == { g \in DOMAIN bench.ngrams : bench.ngrams[g] < web.key_threshold }
Sought == IF bench.mode = "count" THEN DOMAIN bench.ngrams ELSE BelowThreshold

Filtering == Running("ngrams") /\ bench.mode \in {"count", "clean"} /\ ~Exhausted

\* A worker takes a document; one that is no json leaves it without a result.
TakeDocument ==
  /\ Filtering
  /\ ~bench.taken
  /\ IF ~NextLine.json THEN Raise
     ELSE /\ bench' = [bench EXCEPT !.taken = TRUE, !.text_buf = <<NextLine.text>>]
          /\ UNCHANGED <<web, desk, shelf, clean_urls, pairs, groups, web_raised>>

\* The next text of its buffer, up to the first match.
FreeText ==
  /\ Filtering
  /\ bench.text_buf # << >>
  /\ LET text == Head(bench.text_buf)
         counting == bench.mode = "count"
         place == FirstMatch(text, Sought)
         behind == Start(text, place) + SeqLen(place) + 1
     IN  bench' =
           IF Matches(text, Sought) = {}
           THEN [bench EXCEPT !.text_buf = Tail(@),
                              !.free = IF counting THEN @ ELSE Append(@, text)]
           ELSE IF counting
           THEN [bench EXCEPT
                   !.text_buf = Tail(@) \o (IF behind < Len(text)
                                            THEN <<SubSeq(text, behind + 1, Len(text))>> ELSE << >>),
                   !.local = @ \cup {SubSeq(get_words(text), place[1] + 1, place[1] + place[2])}]
           ELSE [bench EXCEPT
                   !.text_buf = Tail(@) \o LongEnough(<<split_text(text, place)[2]>>),
                   !.free = @ \o LongEnough(<<split_text(text, place)[1]>>)]
  /\ UNCHANGED <<web, desk, shelf, clean_urls, pairs, groups, web_raised>>

\* The result of a document: one more for each of its ngrams, or its pieces.
Pieces(doc, free) ==
  IF Len(free) > web.splits THEN << >>
  ELSE [i \in DOMAIN free |-> [doc EXCEPT !.text = free[i],
                                          !.split = @ \o <<bench.line + 1, i - 1>>]]

DocumentDone ==
  /\ Filtering
  /\ bench.taken /\ bench.text_buf = << >>
  /\ bench' = [bench EXCEPT
       !.line = @ + 1, !.taken = FALSE, !.free = << >>, !.local = {},
       !.ngrams = [g \in DOMAIN @ |-> @[g] + (IF g \in bench.local THEN 1 ELSE 0)],
       !.penned = IF bench.mode = "count" THEN @ ELSE @ \o Pieces(NextLine, bench.free)]
  /\ UNCHANGED <<web, desk, shelf, clean_urls, pairs, groups, web_raised>>

CountDone ==
  /\ Running("ngrams")
  /\ bench.mode = "count" /\ Exhausted
  /\ IF BelowThreshold = {} THEN Raise
     ELSE /\ bench' = [bench EXCEPT !.mode = "clean", !.line = 0]
          /\ UNCHANGED <<web, desk, shelf, clean_urls, pairs, groups, web_raised>>

FilterDone == /\ Running("ngrams")
              /\ bench.mode = "clean" /\ Exhausted
              /\ Leave(bench.penned)
              /\ UNCHANGED <<web, clean_urls, pairs, groups, web_raised>>

-----------------------------------------------------------------------------
(***************************************************************************)
(* add_id.py, and the chain.                                               *)
(***************************************************************************)
IdLine == /\ Running("id")
          /\ ~Exhausted
          /\ IF ~NextLine.json THEN Raise
             ELSE /\ Read(Pen(<<[NextLine EXCEPT !.id = bench.line + 1]>>))
                  /\ UNCHANGED <<web, desk, shelf, clean_urls, pairs, groups, web_raised>>

\* A script is killed; it is run again.
KillScript == /\ ~web_raised
              /\ bench # Fresh
              /\ bench' = Fresh
              /\ UNCHANGED <<web, desk, shelf, clean_urls, pairs, groups, web_raised>>

InitWeb == /\ web \in WebJobs
           /\ desk = 1
           /\ shelf = <<web.data>>
           /\ clean_urls = {} /\ pairs = << >> /\ groups = {}
           /\ bench = Fresh
           /\ web_raised = FALSE

NextWeb ==
  \/ ReadUrl \/ WriteUrls \/ MergeFile \/ MergeDone
  \/ CleanLine \/ FixLine \/ CopyDone
  \/ FingerprintLine \/ StartCompare \/ FindDone
  \/ \E b \in Bands : CompareBucket(b)
  \/ GroupLine \/ GroupDone \/ RemoveLine
  \/ ReadTasks \/ TakeDocument \/ FreeText \/ DocumentDone \/ CountDone \/ FilterDone
  \/ IdLine \/ KillScript

WebSpec == InitWeb /\ [][NextWeb]_web_vars

-----------------------------------------------------------------------------
(***************************************************************************)
(* What the corpus promises.                                               *)
(***************************************************************************)
\* Whether script number k is this one and is over.
Over(k, script) == k < desk /\ web.route[k] = script
Scripts == DOMAIN web.route

\* The clean urls are those of the lists that no rule refuses.
UrlsAsListed ==
  \A k \in Scripts : Over(k, "urls") =>
    clean_urls = { u \in Range(UrlLines) :
                     /\ web.urls[u].domain \notin domain_blacklist
                     /\ web.urls[u].extension \notin extentions_blacklist
                     /\ ~web.urls[u].short /\ web.urls[u].formed }

\* While lines are grouped, the urls seen so far are those of sets that share
\* none, each at its index; a set that went into another is never used again.
IndexOfUrls ==
  (desk <= Len(web.route) /\ web.route[desk] = "group") =>
    LET at == bench.url_to_index
        sets == bench.index_to_urls
    IN  /\ DOMAIN at = UNION Range(sets)
        /\ \A i \in DOMAIN sets : sets[i] = { u \in DOMAIN at : at[u] = i }

\* The groups are the connected components of the pairs that are similar enough.
Linked(u, v) == \E i \in DOMAIN pairs :
                  /\ pairs[i].main = u
                  /\ v \in DOMAIN pairs[i].others /\ Similar(pairs[i].others[v])
PairedUrls == UNION { {pairs[i].main} \cup DOMAIN pairs[i].others : i \in DOMAIN pairs }
Closed(urls) == \A u, v \in PairedUrls : (Linked(u, v) /\ {u, v} \cap urls # {}) => {u, v} \subseteq urls
Components ==
  LET closed == { urls \in SUBSET PairedUrls : urls # {} /\ Closed(urls) }
  IN  { urls \in closed : ~\E less \in closed : less # urls /\ less \subseteq urls }

GroupsAreComponents ==
  \A k \in Scripts : Over(k, "group") =>
    { {g.first} \cup g.rest : g \in groups } = { urls \in Components : Cardinality(urls) > 1 }

\* The exact search: of any two urls of a bucket that are duplicates one is
\* listed with a page that stays, or was already struck off with another.
ExactSearch ==
  \A k \in Scripts : (Over(k, "find") /\ web.heuristic_iter = -1) =>
    LET docs == [u \in { shelf[k][i].url : i \in { j \in DOMAIN shelf[k] : shelf[k][j].json } } |->
                   LET n == CHOOSE n \in DOMAIN shelf[k] : shelf[k][n].url = u IN shelf[k][n].text]
                @@ web.earlier
    IN  \A b \in Bands : \A bucket \in Buckets(docs, b) : \A u, v \in bucket :
          (u # v /\ Duplicates(Similarity(docs, u, v))) =>
            \E i \in DOMAIN pairs : {u, v} \cap DOMAIN pairs[i].others # {}

\* Of every group one document stays, and every document that is in none.
OneOfEachGroup ==
  \A k \in Scripts : Over(k, "remove") =>
    LET kept == { shelf[k + 1][i].url : i \in DOMAIN shelf[k + 1] } IN
      \A i \in DOMAIN shelf[k] :
        LET doc == shelf[k][i]
            mine == { g \in groups : doc.url \in {g.first} \cup g.rest }
        IN  doc.json =>
              IF mine = {} THEN doc.url \in kept
              ELSE \A g \in mine : (doc.url \in kept) <=> doc.url = g.first

\* What the ngrams' script has written is text of the document in one piece;
\* a text with more than the longest ngram's words holds none of those below
\* the threshold, and the pieces of a document are no more than the splits.  A
\* document that holds none is written whole.
Occurs(part_of, whole) == \E i \in 0 .. Len(whole) - Len(part_of) :
                            SubSeq(whole, i + 1, i + Len(part_of)) = part_of
PiecesAreFree ==
  (desk <= Len(web.route) /\ web.route[desk] = "ngrams" /\ bench.mode = "clean") =>
    \A i \in DOMAIN bench.penned :
      LET piece == bench.penned[i]
          words == get_words(piece.text)
          source == feed[piece.split[Len(piece.split) - 1]]
      IN  /\ Occurs(piece.text, source.text)
          /\ Len(words) > web.max => \A g \in BelowThreshold : ~Occurs(g, words)
          /\ Cardinality({ j \in DOMAIN bench.penned :
               bench.penned[j].split[Len(piece.split) - 1] = piece.split[Len(piece.split) - 1] })
             <= web.splits

WholeIfFree ==
  (desk <= Len(web.route) /\ web.route[desk] = "ngrams" /\ bench.mode = "clean") =>
    \A n \in 1 .. bench.line :
      (\A g \in BelowThreshold : ~Occurs(g, get_words(feed[n].text))) =>
        \E i \in DOMAIN bench.penned : /\ bench.penned[i].url = feed[n].url
                                       /\ bench.penned[i].text = feed[n].text

\* The lines of a filtered or numbered file are told apart.
LinesToldApart ==
  \A k \in Scripts : (Over(k, "id") \/ Over(k, "ngrams")) =>
    LET name == [i \in DOMAIN shelf[k + 1] |-> <<shelf[k + 1][i].split, shelf[k + 1][i].id>>]
    IN  \A i, j \in DOMAIN name :
          i # j => name[i][IF web.route[k] = "id" THEN 2 ELSE 1] #
                   name[j][IF web.route[k] = "id" THEN 2 ELSE 1]

CorpusAsAsked == /\ UrlsAsListed /\ IndexOfUrls /\ GroupsAreComponents /\ ExactSearch
                 /\ OneOfEachGroup /\ PiecesAreFree /\ WholeIfFree /\ LinesToldApart
=============================================================================
