------------------------------ MODULE Taxonomy ------------------------------
(***************************************************************************)
(* Tags and categories (src/modules/tags, src/modules/categories): labels  *)
(* with a name or slug that no two live ones share, soft and permanent     *)
(* deletion.  A change by staff is one step: what is left out is that a    *)
(* label deleted between the read and the write of an update is renamed.   *)
(***************************************************************************)
EXTENDS Naturals, FiniteSets

CONSTANTS TagIds, CategoryIds, Names,
          None,         \* no row yet
          Gone          \* a row that was deleted for good

VARIABLES tags, categories   \* the rows

Tag == [name : Names, isSystem : BOOLEAN, deleted : BOOLEAN]
Category == [slug : Names, isActive : BOOLEAN, deleted : BOOLEAN]

Rows(table) == {i \in DOMAIN table : table[i] \notin {None, Gone}}

LiveTags == {t \in Rows(tags) : ~tags[t].deleted}
LiveCategories == {c \in Rows(categories) : ~categories[c].deleted}

\* UQ_TAGS_NAME_LIVE and UQ_CATEGORIES_SLUG_LIVE: what a write violates is refused.
NameFree(name, but) == \A t \in LiveTags \ {but} : tags[t].name # name
SlugFree(slug, but) == \A c \in LiveCategories \ {but} : categories[c].slug # slug

-----------------------------------------------------------------------------
(* TagsService.  Only super-admins (manages) touch system tags.             *)

SetTag(t, row) == tags' = [tags EXCEPT ![t] = row] /\ UNCHANGED categories

CreateTag(name, isSystem, manages) ==
  /\ isSystem => manages
  /\ NameFree(name, None)
  /\ \E t \in TagIds :
       /\ tags[t] = None
       /\ SetTag(t, [name |-> name, isSystem |-> isSystem, deleted |-> FALSE])

UpdateTag(t, name, isSystem, manages) ==
  /\ t \in LiveTags
  /\ tags[t].isSystem \/ isSystem # tags[t].isSystem => manages
  /\ NameFree(name, t)
  /\ SetTag(t, [tags[t] EXCEPT !.name = name, !.isSystem = isSystem])

RemoveTag(t, manages) ==
  /\ t \in LiveTags
  /\ tags[t].isSystem => manages
  /\ SetTag(t, [tags[t] EXCEPT !.deleted = TRUE])

\* A deleted one too; its links go with it (Stories).
HardDeleteTag(t, manages) ==
  /\ t \in Rows(tags)
  /\ tags[t].isSystem => manages
  /\ SetTag(t, Gone)

-----------------------------------------------------------------------------
(* CategoriesService.                                                       *)

SetCategory(c, row) == categories' = [categories EXCEPT ![c] = row] /\ UNCHANGED tags

\* A slug made from the name gets a suffix until it is free; one that was asked for is
\* refused.  Either way the row has a free slug.
CreateCategory(slug) ==
  /\ SlugFree(slug, None)
  /\ \E c \in CategoryIds :
       /\ categories[c] = None
       /\ SetCategory(c, [slug |-> slug, isActive |-> TRUE, deleted |-> FALSE])

UpdateCategory(c, slug, isActive) ==
  /\ c \in LiveCategories
  /\ SlugFree(slug, c)
  /\ SetCategory(c, [categories[c] EXCEPT !.slug = slug, !.isActive = isActive])

RemoveCategory(c) ==
  c \in LiveCategories /\ SetCategory(c, [categories[c] EXCEPT !.deleted = TRUE])

HardDeleteCategory(c) == c \in Rows(categories) /\ SetCategory(c, Gone)

RestoreCategory(c) ==
  /\ c \in Rows(categories) /\ categories[c].deleted
  /\ SlugFree(categories[c].slug, c)
  /\ SetCategory(c, [categories[c] EXCEPT !.deleted = FALSE])
=============================================================================
