------------------------------- MODULE Schema -------------------------------
(***************************************************************************)
(* The foreign keys that lead to a member (the entity classes of src/src). *)
(*                                                                         *)
(* Every table is the set of its keys that lead, through any number of     *)
(* tables, to a member; columns that hold data, and keys to tables that no *)
(* member owns, are left out.  Every key is declared ON DELETE RESTRICT.   *)
(* The audit logs name their member without a key, and so does a reply to  *)
(* a review, whose column the deletion of a member goes by.                *)
(***************************************************************************)

CONSTANT NULL

(* Column `column` of `table` holds the id of a row of `parent`.           *)
Ref(table, column, parent) == [table |-> table, column |-> column, parent |-> parent]

-----------------------------------------------------------------------------
(* Orders and what hangs on them.                                          *)
OrderLog ==
  {Ref("order_log", "discount_coupon_id", "coupon"),
   Ref("order_log", "member_id", "member"),
   Ref("order_log", "parent_order_id", "order_log")}
OrderProduct == {Ref("order_product", "order_id", "order_log")}
OrderDiscount == {Ref("order_discount", "order_id", "order_log")}
PaymentLog == {Ref("payment_log", "order_id", "order_log")}
Invoice == {Ref("invoice", "order_id", "order_log")}
OrderContact ==
  {Ref("order_contact", "member_id", "member"),
   Ref("order_contact", "order_id", "order_log")}
OrderExecutor ==
  {Ref("order_executor", "member_id", "member"),
   Ref("order_executor", "order_id", "order_log")}
OrderProductFile ==
  {Ref("order_product_file", "order_product_id", "order_product")}
ActivityAttendance ==
  {Ref("activity_attendance", "order_product_id", "order_product")}
Coupon == {Ref("coupon", "member_id", "member")}
Voucher == {Ref("voucher", "member_id", "member")}
CoinLog == {Ref("coin_log", "member_id", "member")}

-----------------------------------------------------------------------------
(* What members say.                                                       *)
Issue == {Ref("issue", "member_id", "member")}
IssueReaction ==
  {Ref("issue_reaction", "issue_id", "issue"),
   Ref("issue_reaction", "member_id", "member")}
IssueReply ==
  {Ref("issue_reply", "issue_id", "issue"),
   Ref("issue_reply", "member_id", "member")}
IssueReplyReaction ==
  {Ref("issue_reply_reaction", "issue_reply_id", "issue_reply"),
   Ref("issue_reply_reaction", "member_id", "member")}
Comment == {Ref("comment", "member_id", "member")}
CommentReaction ==
  {Ref("comment_reaction", "comment_id", "comment"),
   Ref("comment_reaction", "member_id", "member")}
CommentReply ==
  {Ref("comment_reply", "comment_id", "comment"),
   Ref("comment_reply", "member_id", "member")}
CommentReplyReaction ==
  {Ref("comment_reply_reaction", "comment_reply_id", "comment_reply"),
   Ref("comment_reply_reaction", "member_id", "member")}
Review == {Ref("review", "member_id", "member")}
ReviewReaction ==
  {Ref("review_reaction", "member_id", "member"),
   Ref("review_reaction", "review_id", "review")}
ReviewReply ==
  {Ref("review_reply", "member_id", "member"),
   Ref("review_reply", "review_id", "review")}
Notification ==
  {Ref("notification", "source_member_id", "member"),
   Ref("notification", "target_member_id", "member")}

-----------------------------------------------------------------------------
(* What members study.                                                     *)
Attend == {Ref("attend", "member_id", "member")}
Practice == {Ref("practice", "member_id", "member")}
Exercise == {Ref("exercise", "member_id", "member")}
ProgramContentLog == {Ref("program_content_log", "member_id", "member")}
ProgramContentProgress ==
  {Ref("program_content_progress", "member_id", "member")}
ProgramTempoDelivery == {Ref("program_tempo_delivery", "member_id", "member")}
ProgramTimetable == {Ref("program_timetable", "member_id", "member")}
PodcastProgramProgress ==
  {Ref("podcast_program_progress", "member_id", "member")}
PostRole == {Ref("post_role", "member_id", "member")}

-----------------------------------------------------------------------------
(* The member and what describes him.                                      *)
MemberCard == {Ref("member_card", "member_id", "member")}
MemberContract ==
  {Ref("member_contract", "author_id", "member"),
   Ref("member_contract", "member_id", "member")}
MemberNote ==
  {Ref("member_note", "author_id", "member"),
   Ref("member_note", "member_id", "member")}
MemberPermissionExtra ==
  {Ref("member_permission_extra", "member_id", "member")}
MemberTask ==
  {Ref("member_task", "author_id", "member"),
   Ref("member_task", "executor_id", "member"),
   Ref("member_task", "member_id", "member")}
MemberTrackingLog == {Ref("member_tracking_log", "member_id", "member")}
Member == {Ref("member", "manager_id", "member")}
MemberCategory == {Ref("member_category", "member_id", "member")}
MemberDevice == {Ref("member_device", "member_id", "member")}
MemberOauth == {Ref("member_oauth", "member_id", "member")}
MemberPhone == {Ref("member_phone", "member_id", "member")}
MemberProperty == {Ref("member_property", "member_id", "member")}
MemberTag == {Ref("member_tag", "member_id", "member")}

-----------------------------------------------------------------------------
(* What members run, write, teach and own.                                 *)
Activity == {Ref("activity", "organizer_id", "member")}
AppPage == {Ref("app_page", "editor_id", "member")}
AppPageTemplate == {Ref("app_page_template", "author_id", "member")}
AppointmentPlan == {Ref("appointment_plan", "creator_id", "member")}
CreatorCategory == {Ref("creator_category", "creator_id", "member")}
CreatorDisplay == {Ref("creator_display", "member_id", "member")}
Media == {Ref("media", "member_id", "member")}
MemberShop == {Ref("member_shop", "member_id", "member")}
MemberSocial == {Ref("member_social", "member_id", "member")}
MemberSpeciality == {Ref("member_speciality", "member_id", "member")}
Playlist == {Ref("playlist", "member_id", "member")}
Podcast == {Ref("podcast", "instructor_id", "member")}
PodcastPlan == {Ref("podcast_plan", "creator_id", "member")}
PodcastProgramRole == {Ref("podcast_program_role", "member_id", "member")}
PointLog == {Ref("point_log", "member_id", "member")}
ProgramRole == {Ref("program_role", "member_id", "member")}
ProjectRole == {Ref("project_role", "member_id", "member")}
QuestionGroup == {Ref("question_group", "modifier_id", "member")}
QuestionLibrary == {Ref("question_library", "modifier_id", "member")}
Attachment == {Ref("attachment", "author_id", "member")}
MemberPermissionGroup ==
  {Ref("member_permission_group", "member_id", "member")}
Merchandise ==
  {Ref("merchandise", "member_id", "member"),
   Ref("merchandise", "member_shop_id", "member_shop")}
PodcastAlbum == {Ref("podcast_album", "author_id", "member")}
PodcastProgram == {Ref("podcast_program", "creator_id", "member")}

-----------------------------------------------------------------------------
Columns == UNION {
  OrderLog, OrderProduct, OrderDiscount, PaymentLog, Invoice,
  OrderContact, OrderExecutor, OrderProductFile, ActivityAttendance,
  Coupon, Voucher, CoinLog, Issue, IssueReaction, IssueReply,
  IssueReplyReaction, Comment, CommentReaction, CommentReply,
  CommentReplyReaction, Review, ReviewReaction, ReviewReply, Notification,
  Attend, Practice, Exercise, ProgramContentLog, ProgramContentProgress,
  ProgramTempoDelivery, ProgramTimetable, PodcastProgramProgress,
  PostRole, MemberCard, MemberContract, MemberNote, MemberPermissionExtra,
  MemberTask, MemberTrackingLog, Member, MemberCategory, MemberDevice,
  MemberOauth, MemberPhone, MemberProperty, MemberTag, Activity, AppPage,
  AppPageTemplate, AppointmentPlan, CreatorCategory, CreatorDisplay,
  Media, MemberShop, MemberSocial, MemberSpeciality, Playlist, Podcast,
  PodcastPlan, PodcastProgramRole, PointLog, ProgramRole, ProjectRole,
  QuestionGroup, QuestionLibrary, Attachment, MemberPermissionGroup,
  Merchandise, PodcastAlbum, PodcastProgram}

Tables == {k.table : k \in Columns}
ColumnsOf == [t \in Tables |-> {k \in Columns : k.table = t}]
KeysOf == [t \in Tables |->
             ColumnsOf[t] \ {Ref("review_reply", "member_id", "member")}]

(* The columns that may be NULL.                                           *)
Optional == {Ref("order_log", "parent_order_id", "order_log"),
             Ref("order_log", "discount_coupon_id", "coupon")}

=============================================================================
