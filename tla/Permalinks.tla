----------------------------- MODULE Permalinks -----------------------------
(***************************************************************************)
(* The addresses of posts, pages and tags: the patterns of the settings,   *)
(* what they make of an item, and which item a request for an address gets *)
(* (internal/site/site.go, and the public handlers of server.go).          *)
(*                                                                         *)
(* A pattern, a slug and an address are sequences: of "/", "%", and of     *)
(* characters and words. Two words are never next to each other in a       *)
(* pattern. A year has two characters here, a month and a day one each.    *)
(*                                                                         *)
(* AnyName and ExactPath are not the code: they are mutants the property   *)
(* must catch.                                                             *)
(***************************************************************************)
EXTENDS Integers, Sequences, SequencesExt

CONSTANTS
    Words,     \* what may stand between two "%" as the name of a token
    Reserved,  \* addresses that other handlers have
    Live       \* the content: sequences of posts, pages and tags, as sorted

(* permalinkTokenPattern: tokens are found from the left, and do not       *)
(* overlap. A "%" that closes one opens none.                              *)
TokenAt(p, i) ==
    i + 2 <= Len(p) /\ p[i] = "%" /\ p[i + 1] \in Words /\ p[i + 2] = "%"

Tokens(p) ==
    LET closes[i \in DOMAIN p] == i > 2 /\ TokenAt(p, i - 2) /\ ~closes[i - 2]
    IN {i \in DOMAIN p : TokenAt(p, i) /\ ~closes[i]}

TokenNames(p) == {p[i + 1] : i \in Tokens(p)}

(* formatPermalink. A name without a value stays as it is.                 *)
Filled(p, values) == {i \in Tokens(p) : p[i + 1] \in DOMAIN values}
Piece(p, values, i) ==
    IF i \in Filled(p, values) THEN values[p[i + 1]]
    ELSE IF {i - 1, i - 2} \cap Filled(p, values) # {} THEN <<>>
    ELSE <<p[i]>>
Expanded(p, values) == FlattenSeq([i \in DOMAIN p |-> Piece(p, values, i)])

(* validatePermalinkPattern. The name that must be there is looked for     *)
(* anywhere, also where the "%" before it ends another token. Mutant: any  *)
(* name will do.                                                           *)
AnyName(p, required) == Len(p) > 0
HasName(p, required) ==
    \E i \in 1..Len(p) : TokenAt(p, i) /\ p[i + 1] \in required

Valid(p, allowed, required) ==
    /\ Len(p) > 0 /\ p[1] = "/"
    /\ \A i \in 1..Len(p) - 1 : ~(p[i] = "/" /\ p[i + 1] = "/")
    /\ HasName(p, required)
    /\ TokenNames(p) \subseteq allowed

PostNames == {"postname", "slug"}
PageNames == {"pagename", "slug"}
TagNames  == {"tag", "slug"}
Default == [post |-> <<"/", "posts", "/", "%", "postname", "%">>,
            page |-> <<"/", "pages", "/", "%", "pagename", "%">>,
            tag  |-> <<"/", "tags", "/", "%", "tag", "%">>]

(* normalizePermalinks: what is not valid counts as the default.           *)
Normal(s) ==
    [post |-> IF Valid(s.post, PostNames \cup {"year", "monthnum", "day"}, PostNames)
              THEN s.post ELSE Default.post,
     page |-> IF Valid(s.page, PageNames, PageNames) THEN s.page ELSE Default.page,
     tag  |-> IF Valid(s.tag, TagNames, TagNames) THEN s.tag ELSE Default.tag]

(* PostURL, PageURL and TagURL.                                            *)
DateValues(post) ==
    IF post.date = <<>>
    THEN [year |-> <<"0", "0">>, monthnum |-> <<"0">>, day |-> <<"0">>]
    ELSE [year |-> SubSeq(post.date, 1, 2), monthnum |-> <<post.date[3]>>,
          day |-> <<post.date[4]>>]
PostValues(post) ==
    [w \in PostNames \cup {"year", "monthnum", "day"} |->
        IF w \in PostNames THEN post.slug ELSE DateValues(post)[w]]

PostURL(s, post) == Expanded(Normal(s).post, PostValues(post))
PageURL(s, slug) == Expanded(Normal(s).page, [w \in PageNames |-> slug])
TagURL(s, slug)  == Expanded(Normal(s).tag, [w \in TagNames |-> slug])

(* samePermalinkPath: slashes at the end do not count. Mutant: they do.    *)
ExactPath(path)  == path
Comparable(path) ==
    IF \A i \in DOMAIN path : path[i] = "/" THEN <<"/">>
    ELSE SubSeq(path, 1, CHOOSE n \in DOMAIN path :
                             /\ path[n] # "/"
                             /\ \A i \in n + 1..Len(path) : path[i] = "/")
Same(a, b) == Comparable(a) = Comparable(b)

-----------------------------------------------------------------------------
(* renderPublicPermalink, and the handlers that call it first.             *)

(* The first one that has the address is served. 0: there is none.         *)
PostByPermalink(s, path) == SelectInSeq(Live.posts, LAMBDA x : Same(PostURL(s, x), path))
PageByPermalink(s, path) == SelectInSeq(Live.pages, LAMBDA x : Same(PageURL(s, x), path))
TagByPermalink(s, path)  == SelectInSeq(Live.tags, LAMBDA x : Same(TagURL(s, x), path))

ByPermalink(s, path) ==
    IF PostByPermalink(s, path) # 0
    THEN <<"post", Live.posts[PostByPermalink(s, path)].slug>>
    ELSE IF PageByPermalink(s, path) # 0
    THEN <<"page", Live.pages[PageByPermalink(s, path)]>>
    ELSE IF TagByPermalink(s, path) # 0
    THEN <<"tag", Live.tags[TagByPermalink(s, path)]>>
    ELSE <<>>

(* Server.post, Server.page and Server.tag know the old address as well.   *)
BySlug(path) ==
    IF Len(path) < 4 \/ path[1] # "/" \/ path[3] # "/" THEN <<>>
    ELSE LET slug == SubSeq(path, 4, Len(path))
         IN IF path[2] = "posts" /\ \E i \in DOMAIN Live.posts :
                                       Live.posts[i].slug = slug
            THEN <<"post", slug>>
            ELSE IF path[2] = "pages" /\ slug \in ToSet(Live.pages)
            THEN <<"page", slug>>
            ELSE IF path[2] = "tags" /\ slug \in ToSet(Live.tags)
            THEN <<"tag", slug>>
            ELSE <<>>

Serve(s, path) ==
    IF path \in Reserved THEN <<"other">>
    ELSE IF ByPermalink(s, path) # <<>> THEN ByPermalink(s, path)
    ELSE BySlug(path)

-----------------------------------------------------------------------------
(* The property.                                                           *)

(* A name that the check saw and the expansion does not: "/%year%slug%".   *)
NameLost(p, required) ==
    /\ TokenNames(p) \cap required = {}
    /\ \E i \in 2..Len(p) - 1 :
          p[i] \in required /\ p[i - 1] = "%" /\ p[i + 1] = "%"

Items(kind) == CASE kind = "post" -> {Live.posts[i].slug : i \in DOMAIN Live.posts}
                 [] kind = "page" -> ToSet(Live.pages)
                 [] kind = "tag"  -> ToSet(Live.tags)

URL(s, kind, slug) ==
    CASE kind = "post" -> PostURL(s, CHOOSE x \in ToSet(Live.posts) : x.slug = slug)
      [] kind = "page" -> PageURL(s, slug)
      [] kind = "tag"  -> TagURL(s, slug)

(* Whatever patterns are saved: the address of a post leads to that post   *)
(* and no other one; that of a page to the page, or to a post of the same  *)
(* address; that of a tag to the tag, or to such a post or page; and each  *)
(* does with a slash at its end as well. The old address of a post still   *)
(* leads to it, unless something has taken it.                             *)
Before(kind) == CASE kind = "post" -> {}
                  [] kind = "page" -> {"post"}
                  [] kind = "tag"  -> {"post", "page"}

Takes(s, kinds, url) ==
    \E k \in kinds : \E x \in Items(k) : Same(URL(s, k, x), url)

Leads(s, kind, slug, url) ==
    \/ Serve(s, url) = <<kind, slug>>
    \/ url \in Reserved
    \/ Takes(s, Before(kind), url)

AddressesLead(s) ==
    /\ \A kind \in {"post", "page", "tag"} : \A slug \in Items(kind) :
          LET url == URL(s, kind, slug)
          IN \/ \A end \in {<<>>, <<"/">>} :
                   Leads(s, kind, slug, IF Last(url) = "/" THEN url ELSE url \o end)
             \/ kind = "post" /\ NameLost(Normal(s).post, PostNames)
             \/ kind = "page" /\ NameLost(Normal(s).page, PageNames)
             \/ kind = "tag" /\ NameLost(Normal(s).tag, TagNames)
    /\ \A slug \in Items("post") :
          LET old == <<"/", "posts", "/">> \o slug
          IN Serve(s, old) = <<"post", slug>> \/ Takes(s, {"post", "page", "tag"}, old)
=============================================================================
