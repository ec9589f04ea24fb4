SPECIFICATION Spec
CONSTANTS
    social = social_post_all
    xtext = x_text_post
    Cycles = {social_post_all, x_text_post}
    None = None
INVARIANT EveryJobRunsItsCycle
