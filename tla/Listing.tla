------------------------------ MODULE Listing ------------------------------
(***************************************************************************)
(* From the files to the lists that readers see: posts and their tags in   *)
(* the order of Load (internal/site/site.go), cut into pages by            *)
(* paginateItems (internal/http/server.go).                                *)
(*                                                                         *)
(* The files are a sequence, in the order of the directory walk, of        *)
(* records [file, slug, date, tags, draft]; tags is the list of names of   *)
(* the front matter. A date is a number, 0 when there is none. sort.Slice  *)
(* is not stable: posts of one date may come in any order.                 *)
(*                                                                         *)
(* DraftsIn and FullPagesOnly are not the code: they are mutants that the  *)
(* property must catch.                                                    *)
(***************************************************************************)
EXTENDS Integers, Sequences, SequencesExt, Lists

CONSTANTS
    SlugOf,   \* NormalizeSlug of the names of tags
    Window,   \* so many page numbers at most are all shown (7)
    Around    \* so many on either side of the current one otherwise (2)

-----------------------------------------------------------------------------
(* Load.                                                                   *)

(* loadPosts: a draft is only in the lists of the administration. Mutant:  *)
(* it is in all of them.                                                   *)
DraftsIn(files) == files
Posts(files)    == Where(files, {f \in ToSet(files) : ~f.draft})

(* The last file of a slug is the one that the slug leads to.              *)
BySlug(files, slug) ==
    LET n == SelectLastInSeq(files, LAMBDA f : f.slug = slug)
    IN IF n = 0 THEN <<>> ELSE <<files[n]>>

(* A post stands with a tag once for each of its names that have that slug. *)
Names(post, slug) == Where(post.tags, {n \in ToSet(post.tags) : SlugOf[n] = slug})
Tagged(files, slug) ==
    FlattenSeq([i \in DOMAIN Posts(files) |->
                   [j \in DOMAIN Names(Posts(files)[i], slug) |-> Posts(files)[i]]])

(* The orders sort.Slice may leave, newest first.                          *)
Sorted(posts) ==
    {s \in {[i \in DOMAIN posts |-> posts[p[i]]] : p \in SetToSeqs(DOMAIN posts)} :
        \A i \in 1..Len(s) - 1 : s[i].date >= s[i + 1].date}

(* Tags of posts and of tag files, those with more posts first. A number   *)
(* stands for a slug: its place among the slugs in the order of letters.   *)
TagSlugs(files, described) ==
    described \cup UNION {{SlugOf[n] : n \in ToSet(f.tags)} : f \in ToSet(Posts(files))}

Ahead(files, a, b) ==
    \/ Len(Tagged(files, a)) > Len(Tagged(files, b))
    \/ Len(Tagged(files, a)) = Len(Tagged(files, b)) /\ a < b
Tags(files, described) ==
    {s \in SetToSeqs(TagSlugs(files, described)) :
        \A i \in 1..Len(s) - 1 : Ahead(files, s[i], s[i + 1])}

-----------------------------------------------------------------------------
(* Pages.                                                                  *)

(* paginateItems. What is no number counts as 1 before (parsePositiveInt). *)
(* Mutant: the items that do not fill a page are forgotten.                *)
FullPagesOnly(total, size) == total \div size
TotalPages(total, size)    == (total + size - 1) \div size

Smaller(a, b) == IF a < b THEN a ELSE b
Larger(a, b)  == IF a < b THEN b ELSE a

(* visiblePageNumbers.                                                     *)
Visible(current, total) ==
    IF total <= Window THEN [i \in 1..total |-> i]
    ELSE LET start == Larger(1, current - Around)
             end   == start + 2 * Around
         IN IF end > total THEN [i \in 1..2 * Around + 1 |-> total - 2 * Around - 1 + i]
            ELSE [i \in 1..2 * Around + 1 |-> start - 1 + i]

Paginate(items, size, asked) ==
    LET total == TotalPages(Len(items), size)
        page  == IF total = 0 THEN 1 ELSE Smaller(Larger(asked, 1), total)
        first == (page - 1) * size
        last  == Smaller(first + size, Len(items))
    IN [page  |-> page,
        items |-> IF items = <<>> THEN <<>> ELSE SubSeq(items, first + 1, last),
        prev  |-> IF page > 1 THEN page - 1 ELSE 0,
        next  |-> IF total > 0 /\ page < total THEN page + 1 ELSE 0,
        links |-> IF total > 1 THEN Visible(page, total) ELSE <<>>]

-----------------------------------------------------------------------------
(* The property.                                                           *)

Once(s) == Cardinality(ToSet(s)) = Len(s)

NoTagTwice(post) ==
    \A i, j \in DOMAIN post.tags : i # j => SlugOf[post.tags[i]] # SlugOf[post.tags[j]]

(* A reader who starts anywhere, goes back to the first page and follows   *)
(* the links to the next one sees every published post once, newest first, *)
(* and no draft; the numbers shown contain the page itself, without gaps   *)
(* and none beyond the last; going forth and back leads to the same page.  *)
(* The posts of a tag are those that carry it, once each, unless the front *)
(* matter names one tag in two spellings; every tag listed that no file    *)
(* describes has a post. What is listed under a slug can be opened.        *)
PagesCover(files, size, asked, described) ==
    /\ \A all \in Sorted(Posts(files)) :
          LET n    == Paginate(all, size, asked)
              walk == [p \in 1..Larger(1, TotalPages(Len(all), size)) |-> Paginate(all, size, p)]
              read == FlattenSeq([p \in DOMAIN walk |-> walk[p].items])
          IN /\ Once(read) /\ ToSet(read) = {f \in ToSet(files) : ~f.draft}
             /\ \A i, j \in DOMAIN read : i < j => read[i].date >= read[j].date
             /\ n = walk[n.page]
             /\ \A p \in DOMAIN walk :
                   /\ p < Len(walk) <=> walk[p].next = p + 1
                   /\ walk[p].next # 0 => Paginate(all, size, walk[p].next).prev = p
                   /\ walk[p].links # <<>> =>
                         /\ p \in ToSet(walk[p].links)
                         /\ ToSet(walk[p].links) \subseteq DOMAIN walk
                         /\ \A i \in 1..Len(walk[p].links) - 1 :
                               walk[p].links[i + 1] = walk[p].links[i] + 1
                   /\ walk[p].items = <<>> => files = <<>> \/ \A f \in ToSet(files) : f.draft
    /\ \A tags \in Tags(files, described) : \A t \in ToSet(tags) :
          /\ ToSet(Tagged(files, t)) =
                {f \in ToSet(files) : ~f.draft /\ \E j \in DOMAIN f.tags : SlugOf[f.tags[j]] = t}
          /\ Once(Tagged(files, t)) \/ \E f \in ToSet(files) : ~NoTagTwice(f)
          /\ Tagged(files, t) # <<>> \/ t \in described
    /\ \A f \in ToSet(files) : ~f.draft => BySlug(Posts(files), f.slug) # <<>>
=============================================================================
