---------------------------- MODULE FrontMatter ----------------------------
(***************************************************************************)
(* The file of a post or page: how a draft of the editor is written        *)
(* (SavePost, SavePage, and the two for imports), what the next load reads *)
(* from it, and the draft the editor is given of it                        *)
(* (internal/site/site.go, and getPost and getPage of server.go).          *)
(*                                                                         *)
(* A text is a sequence of Quote, Slash (a backslash), Comma, NewLine,     *)
(* Space and other characters: only these change on the way. A draft is a  *)
(* record [title, tags, summary, date, updated, manual, draft, toc, body]; *)
(* a body is a text and whether a "more" tag ends its beginning.           *)
(*                                                                         *)
(* NoToc is not the code: it is a mutant that the property must catch.     *)
(***************************************************************************)
EXTENDS Integers, Sequences, SequencesExt, Lists

CONSTANTS Quote, Slash, Comma, NewLine, Space,
    Dates,   \* the dates parseContentTime understands
    Now,     \* the minute of the save
    NoDate,  \* nothing given, or the zero time
    SlugOf   \* NormalizeSlug of the titles

-----------------------------------------------------------------------------
(* Texts.                                                                  *)

(* strings.Trim with a set of characters.                                  *)
Trim(text, set) ==
    LET inner == {i \in DOMAIN text : text[i] \notin set}
    IN IF inner = {} THEN <<>>
       ELSE SubSeq(text, Min(inner), Max(inner))
TrimSpace(text) == Trim(text, {Space, NewLine})

Cut(text, sep) == LET n == SelectInSeq(text, LAMBDA c : c = sep)
                  IN IF n = 0 THEN text ELSE SubSeq(text, 1, n - 1)

(* strings.Split: one part more than there are separators.                 *)
Split(text, sep) ==
    LET parts[n \in 0..Len(text)] ==
            IF n = 0 THEN <<<<>>>>
            ELSE IF text[n] = sep THEN Append(parts[n - 1], <<>>)
            ELSE [parts[n - 1] EXCEPT ![Len(parts[n - 1])] = Append(@, text[n])]
    IN parts[Len(text)]

(* strconvQuote.                                                           *)
Quoted(text) ==
    <<Quote>> \o FlattenSeq([i \in DOMAIN text |->
        IF text[i] \in {Quote, Slash} THEN <<Slash, text[i]>> ELSE <<text[i]>>]) \o <<Quote>>

(* A value of splitFrontMatter: the rest of its line, without the quotes   *)
(* around it. Nothing undoes the backslashes.                              *)
Unquoted(text) == Trim(text, {Quote})

Value(text) == Unquoted(TrimSpace(Cut(text, NewLine)))

(* frontMatter.get.                                                        *)
Given(text, fallback) == IF TrimSpace(text) = <<>> THEN fallback ELSE TrimSpace(text)

(* parseList, of the list serializePost writes: a comma in a name is one   *)
(* between two names.                                                      *)
WrittenTags(tags) ==
    FlattenSeq([i \in DOMAIN tags |-> (IF i = 1 THEN <<>> ELSE <<Comma, Space>>)
                                        \o Quoted(TrimSpace(tags[i]))])
NotEmpty(texts) == Where(texts, ToSet(texts) \ {<<>>})
ParseList(text) ==
    IF TrimSpace(text) = <<>> THEN <<>>
    ELSE LET parts == Split(TrimSpace(text), Comma)
         IN NotEmpty([i \in DOMAIN parts |-> Unquoted(TrimSpace(parts[i]))])

-----------------------------------------------------------------------------
(* Writing and reading.                                                    *)

(* SavePost, as far as the dates go: a new post gets the time of the save, *)
(* and an edit always changes the time of the update unless it was given.  *)
Dated(d) ==
    [d EXCEPT !.date = IF @ = NoDate THEN Now ELSE @,
              !.updated = IF ~d.manual \/ @ = NoDate THEN Now ELSE @]

(* normalizeImportedPostDates: an import keeps the date it comes with.     *)
ImportDated(d) ==
    LET date == IF d.date = NoDate THEN Now ELSE d.date
    IN [d EXCEPT !.date = date, !.updated = IF @ = NoDate THEN date ELSE @]

Refused(d) ==
    \/ TrimSpace(d.title) = <<>> \/ SlugOf[d.title] = <<>>
    \/ d.date \notin Dates \cup {NoDate}
    \/ d.manual /\ d.updated \notin Dates \cup {NoDate}

(* serializePost and serializePage: the fields as they stand in the file.  *)
(* A page has no tags. Mutant: the line toc is not written.                *)
NoToc(kind, toc) == "none"
Toc(kind, toc)   == IF toc THEN "true" ELSE "false"

Trimmed(body) == [body EXCEPT !.text = TrimSpace(@)]

Serialized(kind, d) ==
    [title |-> Quoted(d.title), slug |-> SlugOf[d.title],
     tags |-> IF kind = "post" THEN WrittenTags(d.tags) ELSE <<>>,
     summary |-> Quoted(d.summary), date |-> d.date, updated |-> d.updated,
     draft |-> d.draft, toc |-> Toc(kind, d.toc),
     body |-> Trimmed(d.body)]

(* loadPosts and loadPages, with contentSummary; the beginning of a body   *)
(* with a "more" tag is its first character here. A backslash is left out. *)
Beginning(body) ==
    IF body.more /\ body.text # <<>> /\ Head(body.text) # Slash THEN <<Head(body.text)>>
    ELSE <<>>

Loaded(kind, f) ==
    [title |-> Given(Value(f.title), f.slug),
     tags |-> ParseList(Cut(f.tags, NewLine)),
     summary |-> Given(Value(f.summary), Beginning(f.body)),
     date |-> IF kind = "page" /\ f.date = NoDate THEN f.updated ELSE f.date,
     updated |-> f.updated, draft |-> f.draft,
     toc |-> IF kind = "post" THEN f.toc # "false" ELSE f.toc = "true",
     body |-> f.body]

(* getPost and getPage: the editor opens what was loaded, and its updated  *)
(* date is not given by hand.                                              *)
Opened(x) ==
    [title |-> x.title, tags |-> x.tags, summary |-> x.summary, date |-> x.date,
     updated |-> x.updated, manual |-> FALSE, draft |-> x.draft, toc |-> x.toc,
     body |-> x.body]

SavedPost(kind, d)    == Serialized(kind, Dated(d))
SavedImport(kind, d)  == Serialized(kind, ImportDated(d))

-----------------------------------------------------------------------------
(* The property.                                                           *)

Plain(text) == \A i \in DOMAIN text : text[i] \notin {Quote, Slash, NewLine}

PlainDraft(d) ==
    /\ Plain(d.title) /\ Plain(d.summary)
    /\ TrimSpace(d.summary) = <<>> => Plain(Beginning(Trimmed(d.body)))
    /\ \A i \in DOMAIN d.tags : Plain(d.tags[i]) /\ \A j \in DOMAIN d.tags[i] : d.tags[i][j] # Comma

(* What readers see of a draft is what its author wrote, and stays so when *)
(* the post is opened and saved again without a change, in the title, the  *)
(* tags, the summary, the date, the body, and whether it is a draft and    *)
(* has a table of contents; unless a text contains a quote, a backslash or *)
(* a new line, or a tag a comma. The backslash before a quote or another   *)
(* backslash is never taken away: the text grows with every save. A body   *)
(* may contain them, but without a summary its beginning is one, which the *)
(* editor writes into the file. An import keeps its dates, also through a  *)
(* later edit, the updated one excepted.                                   *)
Written(kind, d) ==
    [title |-> TrimSpace(d.title),
     tags |-> IF kind = "page" THEN <<>>
              ELSE NotEmpty([i \in DOMAIN d.tags |-> TrimSpace(d.tags[i])]),
     summary |-> Given(d.summary, Beginning(Trimmed(d.body))),
     draft |-> d.draft, toc |-> d.toc, body |-> Trimmed(d.body)]

Seen(x) == [title |-> x.title, tags |-> x.tags, summary |-> x.summary,
            draft |-> x.draft, toc |-> x.toc, body |-> x.body]

Stays(x, y) == x.date = y.date /\ x.draft = y.draft /\ x.toc = y.toc /\ x.body = y.body

EditsKeepText(kind, d) ==
    LET once  == Loaded(kind, SavedPost(kind, d))
        twice == Loaded(kind, SavedPost(kind, Opened(once)))
        taken == Loaded(kind, SavedImport(kind, d))
        later == Loaded(kind, SavedPost(kind, Opened(taken)))
    IN ~Refused(d) =>
          /\ PlainDraft(d) => /\ Seen(once) = Written(kind, d)
                              /\ Seen(twice) = Written(kind, d)
          /\ Stays(once, twice) /\ twice.updated = Now
          /\ once.date = (IF d.date = NoDate THEN Now ELSE d.date)
          /\ d.manual /\ d.updated # NoDate => once.updated = d.updated
          /\ Stays(taken, later) /\ (d.date # NoDate => taken.date = d.date)
=============================================================================
