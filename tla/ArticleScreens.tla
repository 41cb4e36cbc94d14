--------------------------- MODULE ArticleScreens ---------------------------
(***************************************************************************)
(* The pages of the knowledge base.                                        *)
(***************************************************************************)
EXTENDS Screens

\* isEditor of the pages; the server lets only administrators write.
Editors == With({"AGENT", "L2_L3", "IT_ADMIN", "SYS_ADMIN"})
Publishers == With(IT_ADMIN_ROLES)

KBListPage ==
    Together(Part({Query("kb-articles", "articles", ArticleStatus, Never)}, {},
                  {RowLink("/kb/:id", "kb-articles", ArticleStatus)}),
             For(Editors, Part({}, {}, {Link("/kb/new"), RowLink("/kb/:id/edit", "kb-articles", ArticleStatus)})))

\* Who publishes sees the page refreshed; who archives is led to the list.
PublishAndArchive ==
    For(Publishers,
        Part({}, {Button(<<<<"publish">>>>, "kb-article", {"DRAFT"}, {"kb-article", "kb-articles"}),
                  ButtonTo(<<<<"archive">>>>, "kb-article", ArticleStatus \ {"ARCHIVED"}, {}, "/kb")}, {}))

Feedback == Part({}, {Button(<<<<"feedback">>>>, "kb-article", {"PUBLISHED"}, {})}, {})

KBArticlePage ==
    Page(<<Part({Query("kb-article", "article", ArticleStatus, Never)}, {}, {Link("/kb")}),
           For(Editors, Part({}, {}, {RowLink("/kb/:id/edit", "kb-article", ArticleStatus)})),
           PublishAndArchive, Feedback>>)

\* One page writes a new article and saves an old one; the form starts from
\* the copy that was read for it.
KBEditorPage ==
    Part({Query("kb-article-edit", "article", ArticleStatus, Never)},
         {ButtonTo(<<<<"save">>>>, "kb-article-edit", ArticleStatus, {}, "/kb/:id")}, {Link("/kb/:id")})

KBNewPage == Part({}, {Form(<<"write">>, {}, "/kb/:id")}, {Link("/kb")})
=============================================================================
