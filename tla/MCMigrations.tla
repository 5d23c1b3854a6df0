---------------------------- MODULE MCMigrations ----------------------------
(* Instances of Migrations for TLC. *)
EXTENDS Migrations

CONSTANTS a1, a2, ann, ig, img

MCTitles == {"Instagram", "Post"}

MCCovers == {Null, ig, img}

MCTagLists == {{}, {[url |-> ig, title |-> "Post"]}}

MCOldArticles ==
  [cover_instagram_url : {Null, ig}, cover_image_url : {Null},
   instagram_post_url : {{}, {[url |-> ig, title |-> "Post"]}, {[url |-> img, title |-> "Post"]}},
   article_status : {"saved"}, category : {"exam"},
   signals : {{"answer_key", "result"}}, author_id : {Null}]
  \cup
  [cover_instagram_url : {ig}, cover_image_url : {Null}, instagram_post_url : {{}},
   article_status : {"published"}, category : {"job", "exam", "blog"},
   signals : {{}, {"syllabus", "admission"}}, author_id : {ann}]

MCOldUsers ==
  [auth_provider : {"subscription"}, google_id : {FALSE}, last_login_at : {FALSE},
   api_key_hash : {FALSE}, api_key : BOOLEAN, role : {"user"}]
  \cup
  [auth_provider : {"google"}, google_id : {TRUE}, last_login_at : {TRUE},
   api_key_hash : {FALSE}, api_key : {FALSE}, role : {"admin"}]
=============================================================================
