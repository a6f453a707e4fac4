\* A project and a post, a category of each kind, two editors, two days.
CONSTANTS
    Rows = {project, post}
    Projects = {project}
    Categories = {projectCategory, postCategory}
    ProjectCategories = {projectCategory}
    Editors = {e1, e2}
    None = None
    MaxNow = 2
SPECIFICATION Spec
SYMMETRY MCSymmetry
INVARIANT TypeOK
PROPERTIES DatesKept BulkPublishes CategoriesKept DeletedAreSpared
